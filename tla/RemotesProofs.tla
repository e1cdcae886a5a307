---------------------------- MODULE RemotesProofs ----------------------------
(***************************************************************************)
(* Theorems about Remotes, for every history of commits, every set of      *)
(* branches, URLs and credentials, whoever else pushes or configures: a    *)
(* push is reported as what became of it, and no push takes a commit off   *)
(* a server's branch.                                                      *)
(***************************************************************************)
EXTENDS Remotes, TLAPS

USE RemotesAssumption

\* Whatever a failure of libgit2 is, it is reported with a code of the host's
\* list, never as done, and repeated only if the transport or a lock was at fault.
LEMMA FailuresAreTyped ==
  ASSUME NEW f
  PROVE  /\ OperationFailed(f) \in Results /\ OperationFailed(f).code # "OK"
         /\ \A removed \in BOOLEAN :
              CloneFailed(f, removed) \in Results /\ CloneFailed(f, removed).code # "OK"
<1>1. /\ classify_git_failure(f) \in Codes
      /\ classify_git_failure(f) # "OK"
  BY DEF classify_git_failure, Codes
<1>2. git_failure_is_retriable(f) \in BOOLEAN
  BY DEF git_failure_is_retriable
<1>3. \A removed \in BOOLEAN : (removed /\ git_failure_is_retriable(f)) \in BOOLEAN
  BY <1>2
<1>4. /\ OperationFailed(f) \in Results
      /\ OperationFailed(f).code # "OK"
  BY <1>1, <1>2 DEF OperationFailed, Results
<1>5. ASSUME NEW removed \in BOOLEAN
      PROVE  CloneFailed(f, removed) \in Results /\ CloneFailed(f, removed).code # "OK"
  BY <1>1, <1>3 DEF CloneFailed, Results, Codes
<1> QED
  BY <1>4, <1>5

\* A refusal is not repeated, and not reported as done.
LEMMA RefusalsAreTyped ==
  ASSUME NEW code \in Codes
  PROVE  /\ Refused(code) \in Results /\ ~Refused(code).retriable /\ Refused(code).code = code
         /\ Ok \in Results /\ ~Ok.retriable
         /\ Nothing \in Results /\ ~Nothing.retriable
  BY DEF Refused, Ok, Nothing, Results, Codes

\* The arguments of a call that has not begun.
LEMMA NoCallIsTyped ==
  /\ NoCall \in Arguments /\ NoCall.kind = "none" /\ ~NoCall.rejection
  /\ NoRefs \in Refs
<1>1. NoRefs \in Refs
  BY DEF NoRefs, Refs, OptionalCommit
<1> QED
  BY <1>1 DEF NoCall, Arguments, OptionalCommit

\* A call that returns leaves the arguments to a retry, or nothing.
LEMMA ReturnStep ==
  ASSUME IInv, phase # "idle", NEW r \in Results, Return(r), landed' = FALSE,
         LocalOK', UNCHANGED world
  PROVE  IInv'
<1> USE DEF Return
<1>1. WorldOK'
  BY DEF IInv, TypeOK, WorldOK, world
<1>2. CASE r.retriable
  <2>1. CallOK'
    BY <1>2 DEF IInv, TypeOK, CallOK, CallPhases
  <2> QED
    BY <1>1, <1>2, <2>1 DEF IInv, TypeOK, PhaseHasItsCall, RemoteIsThere, UpdateIsForward,
                            OutcomeIsKnown, CallPhases
<1>3. CASE ~r.retriable
  <2>1. r.retriable = FALSE /\ phase' = "idle" /\ call' = NoCall
    BY <1>3
  <2>2. CallOK'
    BY <2>1, NoCallIsTyped DEF CallOK
  <2>3. call'.kind = "none" /\ ~call'.rejection
    BY <2>1, NoCallIsTyped
  <2> QED
    BY <1>1, <2>1, <2>2, <2>3 DEF IInv, TypeOK, PhaseHasItsCall, RemoteIsThere,
                                  UpdateIsForward, OutcomeIsKnown, CallPhases
<1> QED
  BY <1>2, <1>3

\* A call that fails changes nothing else.
LEMMA FailStep ==
  ASSUME IInv, NEW f, Fail(f)
  PROVE  IInv'
<1>1. PICK r \in Results : Return(r)
  BY FailuresAreTyped DEF Fail
<1>2. LocalOK'
  BY DEF Fail, local, IInv, TypeOK, LocalOK
<1> QED
  BY <1>1, <1>2, ReturnStep DEF Fail

\* Nor does a call that is refused.
LEMMA RefuseStep ==
  ASSUME IInv, phase # "idle", NEW code \in Codes, Refuse(code)
  PROVE  IInv'
<1>1. LocalOK'
  BY DEF Refuse, local, IInv, TypeOK, LocalOK
<1> QED
  BY <1>1, RefusalsAreTyped, ReturnStep DEF Refuse

\* A call begins with what the host passed.
LEMMA BeginStep ==
  ASSUME IInv, phase \in {"idle", "retry"}, NEW start \in Arguments, Begin(start),
         start.kind \in {"fetch", "push", "clone"}, ~start.rejection,
         start.kind = "clone" => start.url \in Urls,
         start.kind = "push" => start.branch \in Branches
  PROVE  IInv'
<1>1. LocalOK' /\ WorldOK'
  BY DEF Begin, local, world, IInv, TypeOK, LocalOK, WorldOK
<1>2. start # NoCall /\ "GIT_OPERATION_FAILURE" \in Codes
  BY NoCallIsTyped DEF Codes
<1>3. CallOK'
  <2>1. Nothing \in Results /\ ~Nothing.retriable
    BY <1>2, RefusalsAreTyped
  <2>2. landed = FALSE
    BY DEF IInv, TypeOK, CallOK
  <2> QED
    BY <1>2, <2>1, <2>2 DEF Begin, CallOK, CallPhases
<1> QED
  BY <1>1, <1>3 DEF Begin, IInv, TypeOK, PhaseHasItsCall, RemoteIsThere, UpdateIsForward,
                    OutcomeIsKnown, CallPhases

\* A call that goes on, with the same purpose, to where it may.
LEMMA ProceedStep ==
  ASSUME IInv, phase \in CallPhases, ~landed, NEW to \in CallPhases \ {"start", "send", "report"},
         NEW with \in Arguments, Proceed(to, with),
         with.kind = call.kind, with.branch = call.branch, with.rejection = call.rejection,
         ~call.rejection, with.url \in Urls,
         call.kind # "clone" => remote.url # Absent,
         to = "negotiate" => call.kind = "push",
         to \in {"transfer", "land"} => call.kind # "push"
  PROVE  IInv'
<1>1. LocalOK' /\ WorldOK'
  BY DEF Proceed, local, world, IInv, TypeOK, LocalOK, WorldOK
<1>2. call.kind # "none"
  BY DEF IInv, PhaseHasItsCall, CallPhases
<1>3. CallOK'
  <2>1. with # NoCall
    BY <1>2, NoCallIsTyped
  <2> QED
    BY <2>1 DEF Proceed, IInv, TypeOK, CallOK, CallPhases
<1>4. remote' = remote
  BY DEF Proceed, local
<1> QED
  BY <1>1, <1>2, <1>3, <1>4 DEF Proceed, IInv, TypeOK, PhaseHasItsCall, RemoteIsThere,
                                UpdateIsForward, OutcomeIsKnown, CallPhases

\* The host's calls that use the network, and their repetition.
LEMMA CallsBegin ==
  ASSUME IInv,
         \/ \E creds \in Credentials :
              \/ FetchCall(creds)
              \/ \E b \in Branches : PushCall(b, creds)
              \/ \E u \in Urls : \E b \in Chosen : CloneCall(u, b, creds)
         \/ Retry
  PROVE  IInv'
<1> USE NoCallIsTyped
<1>1. ASSUME NEW creds \in Credentials, FetchCall(creds)
      PROVE  IInv'
  <2>1. PICK start : start = [NoCall EXCEPT !.kind = "fetch", !.creds = creds]
    OBVIOUS
  <2>2. start \in Arguments /\ start.kind = "fetch" /\ ~start.rejection
    BY <2>1 DEF Arguments
  <2>3. phase = "idle" /\ Begin(start)
    BY <1>1, <2>1 DEF FetchCall
  <2> QED
    BY <2>2, <2>3, BeginStep
<1>2. ASSUME NEW creds \in Credentials, NEW b \in Branches, PushCall(b, creds)
      PROVE  IInv'
  <2>1. PICK start : start = [NoCall EXCEPT !.kind = "push", !.branch = b, !.creds = creds]
    OBVIOUS
  <2>2. start \in Arguments /\ start.kind = "push" /\ ~start.rejection /\ start.branch = b
    BY <2>1 DEF Arguments
  <2>3. phase = "idle" /\ Begin(start)
    BY <1>2, <2>1 DEF PushCall
  <2> QED
    BY <2>2, <2>3, BeginStep
<1>3. ASSUME NEW creds \in Credentials, NEW u \in Urls, NEW b \in Chosen, CloneCall(u, b, creds)
      PROVE  IInv'
  <2>1. PICK start :
          start = [NoCall EXCEPT !.kind = "clone", !.url = u, !.branch = b, !.creds = creds]
    OBVIOUS
  <2>2. start \in Arguments /\ start.kind = "clone" /\ ~start.rejection /\ start.url = u
    BY <2>1 DEF Arguments
  <2>3. phase = "idle" /\ Begin(start)
    BY <1>3, <2>1 DEF CloneCall
  <2> QED
    BY <2>2, <2>3, BeginStep
<1>4. CASE Retry
  <2>1. PICK start :
          start = [NoCall EXCEPT !.kind = call.kind, !.branch = call.branch, !.creds = call.creds,
                                 !.url = IF call.kind = "clone" THEN call.url ELSE Absent]
    OBVIOUS
  <2>2. phase = "retry" /\ Begin(start)
    BY <1>4, <2>1 DEF Retry
  <2>3. call \in Arguments
    BY DEF IInv, TypeOK, CallOK
  <2>4. /\ start \in Arguments /\ start.kind = call.kind /\ ~start.rejection
        /\ start.branch = call.branch
        /\ call.kind = "clone" => start.url = call.url
    BY <2>1, <2>3 DEF Arguments
  <2>5. /\ call.kind \in {"fetch", "push", "clone"}
        /\ call.kind = "clone" => call.url \in Urls
        /\ call.kind = "push" => call.branch \in Branches
    BY <2>2, <2>3 DEF IInv, PhaseHasItsCall, Arguments
  <2> QED
    BY <2>2, <2>4, <2>5, BeginStep
<1> QED
  BY <1>1, <1>2, <1>3, <1>4

\* The remote changes only between the calls.
LEMMA RemoteCallStep ==
  ASSUME IInv,
         \/ \E u \in Urls : AddRemote(u) \/ SetRemoteUrl(u)
         \/ RemoveRemote
  PROVE  IInv'
<1>1. phase = "idle"
  BY DEF AddRemote, SetRemoteUrl, RemoveRemote
<1>2. PICK r \in {Ok, Refused("GIT_OPERATION_FAILURE")} : Done(r)
  BY DEF AddRemote, SetRemoteUrl, RemoveRemote
<1>3. r \in Results /\ ~r.retriable
  BY <1>2, RefusalsAreTyped DEF Codes
<1>4. CallOK' /\ WorldOK'
  BY <1>1, <1>2, <1>3 DEF Done, world, IInv, TypeOK, CallOK, WorldOK
<1>5. LocalOK'
  <2> USE DEF IInv, TypeOK, LocalOK
  <2>1. refs' = refs
    BY <1>2 DEF Done
  <2>2. ASSUME NEW u \in Urls, AddRemote(u) \/ SetRemoteUrl(u)
        PROVE  LocalOK'
    <3>1. tracking' = tracking /\ remote' \in {remote, [remote EXCEPT !.url = u]}
      BY <2>2 DEF AddRemote, SetRemoteUrl
    <3> QED
      BY <2>1, <3>1
  <2>3. CASE RemoveRemote
    <3>1. \/ remote' = [url |-> Absent, push |-> Absent] /\ tracking' = NoRefs
          \/ remote' = remote /\ tracking' = tracking
      BY <2>3 DEF RemoveRemote
    <3> QED
      BY <2>1, <3>1, NoCallIsTyped
  <2> QED
    BY <2>2, <2>3
<1> QED
  BY <1>1, <1>2, <1>4, <1>5 DEF Done, IInv, TypeOK, PhaseHasItsCall, RemoteIsThere,
                                UpdateIsForward, OutcomeIsKnown, CallPhases

\* Before the network.
LEMMA StartSteps ==
  ASSUME IInv, StartRefused \/ Start
  PROVE  IInv'
<1>1. phase = "start" /\ ~landed /\ ~call.rejection /\ call \in Arguments
  BY DEF StartRefused, Start, IInv, TypeOK, CallOK, OutcomeIsKnown
<1>2. CASE StartRefused
  <2>1. PICK code \in Codes : Refuse(code)
    BY <1>2 DEF StartRefused, Codes
  <2> QED
    BY <1>1, <2>1, RefuseStep
<1>3. CASE Start
  <2>1. PICK url : /\ url = IF call.kind = "clone" THEN call.url
                            ELSE IF call.kind = "push" /\ remote.push # Absent THEN remote.push
                            ELSE remote.url
                   /\ Proceed("connect", [call EXCEPT !.url = url])
    BY <1>3 DEF Start
  <2>2. PICK with : with = [call EXCEPT !.url = url]
    OBVIOUS
  <2>3. url \in Urls
    BY <1>1, <1>3, <2>1 DEF Start, IInv, TypeOK, LocalOK, PhaseHasItsCall
  <2>4. /\ with \in Arguments /\ with.kind = call.kind /\ with.branch = call.branch
        /\ with.rejection = call.rejection /\ with.url = url
    BY <1>1, <2>2, <2>3 DEF Arguments
  <2>5. call.kind # "clone" => remote.url # Absent
    BY <1>3 DEF Start
  <2> QED
    BY <1>1, <2>1, <2>2, <2>3, <2>4, <2>5, ProceedStep DEF CallPhases
<1> QED
  BY <1>2, <1>3

\* A step at the network keeps the call's purpose, and fails or goes on.
LEMMA NetworkProceeds ==
  ASSUME IInv, phase \in CallPhases \ {"start"}, phase \notin {"send", "report"},
         NEW to \in CallPhases \ {"start", "send", "report"},
         NEW with \in Arguments, Proceed(to, with),
         with.kind = call.kind, with.branch = call.branch, with.rejection = call.rejection,
         with.url = call.url,
         to = "negotiate" => call.kind = "push",
         to \in {"transfer", "land"} => call.kind # "push"
  PROVE  IInv'
<1>1. phase \in CallPhases /\ ~landed /\ ~call.rejection /\ call.url \in Urls
  BY DEF IInv, TypeOK, CallOK, OutcomeIsKnown, PhaseHasItsCall, CallPhases
<1>2. call.kind # "clone" => remote.url # Absent
  BY DEF IInv, RemoteIsThere
<1> QED
  BY <1>1, <1>2, ProceedStep

\* The steps that only fail.
LEMMA FailingSteps ==
  ASSUME IInv,
         CannotParse \/ Disconnected \/ RemoteMissing \/ FetchBlocked \/ NegotiateRefuses
  PROVE  IInv'
<1>1. PICK f : Fail(f)
  BY DEF CannotParse, Disconnected, RemoteMissing, FetchBlocked, NegotiateRefuses
<1> QED
  BY <1>1, FailStep

\* Connecting, credentials, and what the server advertises.
LEMMA ConnectionSteps ==
  ASSUME IInv, \/ NoCredentialsAsked \/ CredentialsAsked \/ credential_callback \/ Judge
               \/ Advertise
  PROVE  IInv'
<1> USE DEF CallPhases
<1>1. call \in Arguments
  BY DEF IInv, TypeOK, CallOK
<1>2. CASE NoCredentialsAsked
  BY <1>1, <1>2, NetworkProceeds DEF NoCredentialsAsked
<1>3. CASE CredentialsAsked
  <2>1. PICK types \in Doors : Proceed("credentials", [call EXCEPT !.asked = types])
    BY <1>3 DEF CredentialsAsked
  <2>2. PICK with : with = [call EXCEPT !.asked = types]
    OBVIOUS
  <2>3. /\ with \in Arguments /\ with.kind = call.kind /\ with.branch = call.branch
        /\ with.rejection = call.rejection /\ with.url = call.url
    BY <1>1, <2>2 DEF Arguments
  <2>4. phase = "connect"
    BY <1>3 DEF CredentialsAsked
  <2> QED
    BY <2>1, <2>2, <2>3, <2>4, NetworkProceeds
<1>4. CASE credential_callback
  <2>1. PICK with : with = [call EXCEPT !.attempts = @ + 1]
    OBVIOUS
  <2>2. phase = "credentials"
    BY <1>4 DEF credential_callback
  <2>3. CASE \E f : Fail(f)
    BY <2>3, FailStep
  <2>4. CASE with.attempts <= MaxAttempts /\ Proceed("judge", with)
    <3>1. call.attempts \in Nat /\ with.attempts = call.attempts + 1
      BY <1>1, <2>1 DEF Arguments
    <3>2. with.attempts \in 0 .. MaxAttempts
      BY <2>4, <3>1
    <3>3. /\ with \in Arguments /\ with.kind = call.kind /\ with.branch = call.branch
          /\ with.rejection = call.rejection /\ with.url = call.url
      BY <1>1, <2>1, <3>1, <3>2 DEF Arguments
    <3> QED
      BY <2>2, <2>4, <3>3, NetworkProceeds
  <2> QED
    BY <1>4, <2>1, <2>3, <2>4 DEF credential_callback
<1>5. CASE Judge
  <2>1. PICK with : with = [call EXCEPT !.asked = {"ssh_key"}]
    OBVIOUS
  <2>2. /\ with \in Arguments /\ with.kind = call.kind /\ with.branch = call.branch
        /\ with.rejection = call.rejection /\ with.url = call.url
    BY <1>1, <2>1 DEF Arguments
  <2>3. phase = "judge"
    BY <1>5 DEF Judge
  <2>4. CASE \E f : Fail(f)
    BY <2>4, FailStep
  <2>5. CASE Proceed("credentials", with)
    BY <2>2, <2>3, <2>5, NetworkProceeds
  <2>6. CASE Proceed("talk", call)
    BY <1>1, <2>3, <2>6, NetworkProceeds
  <2>7. CASE Proceed("credentials", call)
    BY <1>1, <2>3, <2>7, NetworkProceeds
  <2> QED
    BY <1>5, <2>1, <2>4, <2>5, <2>6, <2>7 DEF Judge
<1>6. CASE Advertise
  <2>1. PICK with : with = [call EXCEPT !.advertised = There.refs]
    OBVIOUS
  <2>2. phase = "talk"
    BY <1>6 DEF Advertise
  <2>3. There.refs \in Refs
    BY <2>2 DEF There, IInv, TypeOK, WorldOK, Servers, PhaseHasItsCall
  <2>4. /\ with \in Arguments /\ with.kind = call.kind /\ with.branch = call.branch
        /\ with.rejection = call.rejection /\ with.url = call.url
    BY <1>1, <2>1, <2>3 DEF Arguments
  <2>5. CASE call.kind = "push"
    <3>1. Proceed("negotiate", with)
      BY <1>6, <2>1, <2>5 DEF Advertise
    <3> QED
      BY <2>2, <2>4, <2>5, <3>1, NetworkProceeds
  <2>6. CASE call.kind # "push"
    <3>1. Proceed("transfer", with)
      BY <1>6, <2>1, <2>6 DEF Advertise
    <3> QED
      BY <2>2, <2>4, <2>6, <3>1, NetworkProceeds
  <2> QED
    BY <2>5, <2>6
<1> QED
  BY <1>2, <1>3, <1>4, <1>5, <1>6

\* What a fetch or a clone receives.
LEMMA TransferSteps ==
  ASSUME IInv, Download \/ Transferred
  PROVE  IInv'
<1> USE DEF CallPhases
<1>1. call \in Arguments /\ phase = "transfer" /\ call.kind # "push"
  BY DEF IInv, TypeOK, CallOK, Download, Transferred, PhaseHasItsCall
<1>2. CASE Download
  <2>1. PICK with : with = [call EXCEPT !.received = TRUE]
    OBVIOUS
  <2>2. /\ with \in Arguments /\ with.kind = call.kind /\ with.branch = call.branch
        /\ with.rejection = call.rejection /\ with.url = call.url
    BY <1>1, <2>1 DEF Arguments
  <2> QED
    BY <1>1, <1>2, <2>1, <2>2, NetworkProceeds DEF Download
<1>3. CASE Transferred
  BY <1>1, <1>3, NetworkProceeds DEF Transferred
<1> QED
  BY <1>2, <1>3

\* A fetch moves the tracking branches, a clone nothing of this model.
LEMMA LandingSteps ==
  ASSUME IInv, FetchLands \/ CloneLands
  PROVE  IInv'
<1>1. call \in Arguments /\ phase = "land" /\ landed = FALSE
  BY DEF IInv, TypeOK, CallOK, FetchLands, CloneLands
<1>2. CASE FetchLands
  <2>1. PICK r : r = [code |-> "OK", retriable |-> FALSE, updated |-> Advertised]
    OBVIOUS
  <2>2. r \in Results
    BY <2>1 DEF Results, Codes, Advertised
  <2>3. tracking' \in Refs
    BY <1>1, <1>2 DEF FetchLands, IInv, TypeOK, LocalOK, Refs, Advertised, Arguments
  <2>4. remote.url # Absent
    BY <1>1, <1>2 DEF FetchLands, IInv, RemoteIsThere, CallPhases
  <2>5. LocalOK'
    BY <1>2, <2>3, <2>4 DEF FetchLands, IInv, TypeOK, LocalOK
  <2> QED
    BY <1>1, <1>2, <2>1, <2>2, <2>5, ReturnStep DEF FetchLands
<1>3. CASE CloneLands
  <2>1. CASE \E f : Fail(f)
    BY <2>1, FailStep
  <2>2. CASE Return(Ok) /\ UNCHANGED <<local, world, landed>>
    <3>1. LocalOK'
      BY <2>2 DEF local, IInv, TypeOK, LocalOK
    <3>2. Ok \in Results
      BY DEF Ok, Results, Codes
    <3> QED
      BY <1>1, <2>2, <3>1, <3>2, ReturnStep
  <2> QED
    BY <1>3, <2>1, <2>2 DEF CloneLands
<1> QED
  BY <1>2, <1>3

\* What is advertised for the pushed branch, and what it is compared with.
LEMMA TipIsTyped ==
  ASSUME IInv, call.kind = "push"
  PROVE  OldTip \in OptionalCommit /\ call.branch \in Branches
  BY DEF IInv, TypeOK, CallOK, PhaseHasItsCall, Arguments, OldTip, Refs

\* libgit2 lets through what follows the advertised tip.
LEMMA NegotiateStep ==
  ASSUME IInv, Negotiate
  PROVE  IInv'
<1> USE DEF Negotiate
<1>1. PICK new : new = refs[call.branch]
  OBVIOUS
<1>2. PICK with : with = [call EXCEPT !.new = new]
  OBVIOUS
<1>3. /\ call \in Arguments /\ phase = "negotiate" /\ call.kind = "push" /\ ~call.rejection
      /\ ~result.retriable
  BY DEF IInv, TypeOK, CallOK, PhaseHasItsCall, OutcomeIsKnown
<1>4. OldTip \in OptionalCommit /\ call.branch \in Branches
  BY <1>3, TipIsTyped
<1>5. new \in Commits
  BY <1>1, <1>4 DEF IInv, TypeOK, LocalOK, Refs, OptionalCommit
<1>6. /\ with \in Arguments /\ with.kind = "push" /\ with.branch = call.branch
      /\ ~with.rejection /\ with.url = call.url /\ with.new = new
      /\ with.advertised = call.advertised
  BY <1>2, <1>3, <1>5 DEF Arguments, OptionalCommit
<1>7. /\ call' = with /\ phase' = (IF OldTip = new THEN "report" ELSE "send")
      /\ landed' = (OldTip = new) /\ UNCHANGED <<local, world, result>>
  BY <1>1, <1>2
<1>8. LocalOK' /\ WorldOK'
  BY <1>7 DEF local, world, IInv, TypeOK, LocalOK, WorldOK
<1>9. CallOK'
  <2>1. with # NoCall
    BY <1>6, NoCallIsTyped
  <2> QED
    BY <1>3, <1>6, <1>7, <2>1 DEF IInv, TypeOK, CallOK, CallPhases
<1>10. PhaseHasItsCall' /\ RemoteIsThere'
  BY <1>3, <1>6, <1>7 DEF local, IInv, PhaseHasItsCall, RemoteIsThere, CallPhases
<1>11. OldTip' = OldTip
  BY <1>6, <1>7 DEF OldTip
<1>12. UpdateIsForward'
  BY <1>1, <1>5, <1>6, <1>7, <1>11 DEF UpdateIsForward
<1>13. OutcomeIsKnown'
  BY <1>6, <1>7 DEF OutcomeIsKnown
<1> QED
  BY <1>8, <1>9, <1>10, <1>12, <1>13 DEF IInv, TypeOK

\* The server takes the update or rejects it; the call knows which.
LEMMA ServerStep ==
  ASSUME IInv, ServerUpdates
  PROVE  IInv'
<1> USE DEF ServerUpdates
<1>1. /\ call \in Arguments /\ phase = "send" /\ call.kind = "push" /\ ~call.rejection
      /\ ~result.retriable /\ landed = FALSE /\ call.url \in Urls
  BY DEF IInv, TypeOK, CallOK, PhaseHasItsCall, OutcomeIsKnown, CallPhases
<1>2. phase' = "report" /\ UNCHANGED <<local, busy, result, outside>>
  OBVIOUS
<1>3. LocalOK'
  BY <1>2 DEF local, IInv, TypeOK, LocalOK
<1>4. CASE /\ server' = [server EXCEPT ![call.url].refs[call.branch] = call.new]
           /\ landed' = TRUE /\ UNCHANGED call
  <2>1. call.new \in OptionalCommit
    BY <1>1 DEF Arguments
  <2>2. server' \in [Urls -> Servers]
    <3>1. There \in Servers /\ server \in [Urls -> Servers]
      BY <1>1 DEF There, IInv, TypeOK, WorldOK
    <3>2. [There EXCEPT !.refs[call.branch] = call.new] \in Servers
      BY <2>1, <3>1 DEF Servers, Refs
    <3> QED
      BY <1>4, <3>1, <3>2 DEF There
  <2>3. WorldOK'
    BY <1>2, <2>2 DEF IInv, TypeOK, WorldOK
  <2>4. CallOK'
    BY <1>1, <1>2, <1>4 DEF IInv, TypeOK, CallOK, CallPhases
  <2> QED
    BY <1>1, <1>2, <1>3, <1>4, <2>3, <2>4
       DEF local, IInv, TypeOK, PhaseHasItsCall, RemoteIsThere, UpdateIsForward,
           OutcomeIsKnown, CallPhases
<1>5. CASE call' = [call EXCEPT !.rejection = TRUE] /\ UNCHANGED <<server, landed>>
  <2>1. /\ call' \in Arguments /\ call'.kind = "push" /\ call'.branch = call.branch
        /\ call'.rejection /\ call'.url = call.url
    BY <1>1, <1>5 DEF Arguments
  <2>2. WorldOK'
    BY <1>2, <1>5 DEF IInv, TypeOK, WorldOK
  <2>3. call' # NoCall
    BY <2>1, NoCallIsTyped
  <2>4. CallOK'
    BY <1>1, <1>2, <1>5, <2>1, <2>3 DEF IInv, TypeOK, CallOK, CallPhases
  <2> QED
    BY <1>1, <1>2, <1>3, <1>5, <2>1, <2>2, <2>4
       DEF local, IInv, TypeOK, PhaseHasItsCall, RemoteIsThere, UpdateIsForward,
           OutcomeIsKnown, CallPhases
<1> QED
  BY <1>4, <1>5

\* The tracking branch of a push follows only what the server took.
LEMMA PushReturnsStep ==
  ASSUME IInv, PushReturns
  PROVE  IInv'
<1>1. call \in Arguments /\ phase = "report" /\ call.kind = "push" /\ remote.url # Absent
  BY DEF PushReturns, IInv, TypeOK, CallOK, PhaseHasItsCall, RemoteIsThere, CallPhases
<1>2. PICK r : r = IF call.rejection THEN Refused("GIT_OPERATION_FAILURE") ELSE Ok
  OBVIOUS
<1>3. r \in Results
  BY <1>2, RefusalsAreTyped DEF Codes
<1>4. tracking' \in Refs
  BY <1>1 DEF PushReturns, PushTracking, IInv, TypeOK, LocalOK, Refs, Arguments
<1>5. LocalOK'
  BY <1>1, <1>4 DEF PushReturns, IInv, TypeOK, LocalOK
<1> QED
  BY <1>1, <1>2, <1>3, <1>5, ReturnStep DEF PushReturns

\* Nobody else touches the call, and whoever writes a URL or a reference writes
\* one there is.
LEMMA OutsideStep ==
  ASSUME IInv, Others
  PROVE  IInv'
<1> USE DEF OptionalCommit
<1>1. outside < MaxOutside /\ outside' = outside + 1 /\ UNCHANGED <<phase, call, result, landed>>
  BY DEF Others, ServerChanges, OthersPush, TerminalCommits, TerminalLocks,
         TerminalConfigures, Outside
<1>2. CallOK' /\ outside' \in 0 .. MaxOutside
  BY <1>1 DEF IInv, TypeOK, CallOK, WorldOK
<1> DEFINE Typed ==
      LocalOK' /\ server' \in [Urls -> Servers] /\ busy' \in BOOLEAN /\ remote'.url = remote.url
<1>3. Typed
  <2> USE DEF IInv, TypeOK, LocalOK, WorldOK, local
  <2>1. ASSUME NEW u \in Urls, ServerChanges(u)
        PROVE  Typed
    <3>1. UNCHANGED <<refs, tracking, remote, busy>>
      BY <2>1 DEF ServerChanges
    <3>2. \/ \E s \in {"up", "down", "missing"} : server' = [server EXCEPT ![u].state = s]
          \/ \E w \in Welcomes : server' = [server EXCEPT ![u].welcome = w]
      BY <2>1 DEF ServerChanges
    <3>3. server' \in [Urls -> Servers]
      BY <3>2 DEF Servers
    <3> QED
      BY <3>1, <3>3
  <2>2. ASSUME NEW u \in Urls, NEW b \in Branches, NEW c \in OptionalCommit, OthersPush(u, b, c)
        PROVE  Typed
    <3>1. UNCHANGED <<refs, tracking, remote, busy>>
      BY <2>2 DEF OthersPush
    <3>2. server[u] \in Servers /\ server' = [server EXCEPT ![u].refs[b] = c]
      BY <2>2 DEF OthersPush
    <3>3. [server[u] EXCEPT !.refs[b] = c] \in Servers
      BY <2>2, <3>2 DEF Servers, Refs
    <3>4. server' \in [Urls -> Servers]
      BY <3>2, <3>3
    <3> QED
      BY <3>1, <3>4
  <2>3. ASSUME NEW b \in Branches, NEW c \in OptionalCommit, TerminalCommits(b, c)
        PROVE  Typed
    BY <2>3 DEF TerminalCommits, Refs
  <2>4. ASSUME NEW u \in Urls, TerminalConfigures(u)
        PROVE  Typed
    BY <2>4 DEF TerminalConfigures
  <2>5. CASE TerminalLocks
    BY <2>5 DEF TerminalLocks
  <2> QED
    BY <2>1, <2>2, <2>3, <2>4, <2>5 DEF Others
<1>4. PhaseHasItsCall' /\ RemoteIsThere' /\ UpdateIsForward' /\ OutcomeIsKnown'
  BY <1>1, <1>3 DEF IInv, PhaseHasItsCall, RemoteIsThere, UpdateIsForward, OutcomeIsKnown, OldTip
<1> QED
  BY <1>2, <1>3, <1>4 DEF IInv, TypeOK, WorldOK

\* At the start no call runs.
LEMMA InvariantInit == Init => IInv
<1> SUFFICES ASSUME Init PROVE IInv
  OBVIOUS
<1> USE DEF Init
<1>1. LocalOK
  BY NoCallIsTyped DEF LocalOK, Refs, OptionalCommit
<1>2. WorldOK
  <2>1. [refs : Hosted, state : {"up"}, welcome : {"holders"}] \subseteq Servers
    BY DEF Servers, Refs, OptionalCommit, Welcomes
  <2>2. server \in [Urls -> Servers]
    BY <2>1, Zenon
  <2>3. outside \in 0 .. MaxOutside
    OBVIOUS
  <2> QED
    BY <2>2, <2>3, Zenon DEF WorldOK
<1>3. CallOK
  BY NoCallIsTyped DEF CallOK, Nothing, Results, Codes, CallPhases
<1> QED
  BY <1>1, <1>2, <1>3, NoCallIsTyped
     DEF IInv, TypeOK, PhaseHasItsCall, RemoteIsThere, UpdateIsForward, OutcomeIsKnown, CallPhases

\* Every step keeps the invariant, one group of actions per lemma above.
LEMMA InvariantStep == IInv /\ [Next]_vars => IInv'
<1> SUFFICES ASSUME IInv, [Next]_vars PROVE IInv'
  OBVIOUS
<1>1. CASE HostCalls
  BY <1>1, CallsBegin, RemoteCallStep DEF HostCalls
<1>2. CASE CallSteps
  BY <1>2, StartSteps, FailingSteps, ConnectionSteps, TransferSteps, LandingSteps,
     NegotiateStep, ServerStep, PushReturnsStep DEF CallSteps
<1>3. CASE Retry
  BY <1>3, CallsBegin
<1>4. CASE Others
  BY <1>4, OutsideStep
<1>5. CASE UNCHANGED vars
  BY <1>5 DEF vars, IInv, TypeOK, LocalOK, WorldOK, CallOK, PhaseHasItsCall, RemoteIsThere,
              UpdateIsForward, OutcomeIsKnown, OldTip
<1> QED
  BY <1>1, <1>2, <1>3, <1>4, <1>5 DEF Next

\* The inductive invariant: a call is where only its kind comes, its remote stays,
\* its update follows what was advertised, and once the server has spoken the
\* call knows what it said.
THEOREM RemotesInvariant == Spec => []IInv
  BY InvariantInit, InvariantStep, PTL DEF Spec

\* The state is well typed, no more credentials are tried than MaxAttempts, and a
\* removed remote leaves no tracking branch behind, not even by a call that runs.
THEOREM TypeCorrect == Spec => []TypeOK
<1>1. IInv => TypeOK
  BY DEF IInv
<1> QED
  BY <1>1, RemotesInvariant, PTL

\* The steps that end a call, and what a push may be told.
LEMMA PushEnds ==
  ASSUME IInv, [Next]_vars, Ends, call.kind = "push"
  PROVE  /\ result'.code = "OK" => landed
         /\ landed => result'.code = "OK" \/ result'.retriable
<1>1. phase # "idle" /\ phase # "retry" /\ call \in Arguments /\ phase' \in {"idle", "retry"}
  BY DEF Ends, CallPhases, IInv, TypeOK, CallOK
<1>2. ASSUME NEW f, Fail(f)
      PROVE  result' = OperationFailed(f)
  BY <1>2 DEF Fail, Return
<1>3. CASE Disconnected
  <2>1. result' = OperationFailed(Unreachable)
    BY <1>2, <1>3 DEF Disconnected
  <2>2. result'.retriable /\ result'.code # "OK"
    BY <2>1 DEF OperationFailed, Unreachable, Failure, git_failure_is_retriable,
                classify_git_failure, IsUnparseableUrl, IsTransport
  <2> QED
    BY <2>2
<1>4. CASE PushReturns
  <2>1. phase = "report"
    BY <1>4 DEF PushReturns
  <2>2. result' = IF call.rejection THEN Refused("GIT_OPERATION_FAILURE") ELSE Ok
    BY <1>4 DEF PushReturns, Return
  <2>3. landed <=> ~call.rejection
    BY <2>1 DEF IInv, OutcomeIsKnown
  <2> QED
    BY <2>2, <2>3 DEF Refused, Ok
<1>5. CASE StartRefused
  <2>1. phase = "start" /\ ~landed
    BY <1>5 DEF StartRefused, IInv, TypeOK, CallOK
  <2>2. PICK code \in Codes : code # "OK" /\ result' = Refused(code)
    BY <1>5 DEF StartRefused, Refuse, Return, Codes
  <2> QED
    BY <2>1, <2>2 DEF Refused
<1>6. CASE \/ CannotParse \/ RemoteMissing \/ FetchBlocked \/ NegotiateRefuses
           \/ (credential_callback /\ \E f : Fail(f)) \/ (Judge /\ \E f : Fail(f))
  <2>1. phase # "report"
    BY <1>6 DEF CannotParse, RemoteMissing, FetchBlocked, NegotiateRefuses,
                credential_callback, Judge
  <2>2. PICK f : Fail(f)
    BY <1>6 DEF CannotParse, RemoteMissing, FetchBlocked, NegotiateRefuses
  <2>3. ~landed /\ result'.code # "OK"
    BY <1>2, <2>1, <2>2, FailuresAreTyped DEF IInv, TypeOK, CallOK
  <2> QED
    BY <2>3
<1>7. CASE FetchLands \/ CloneLands \/ Transferred \/ Download
  BY <1>7 DEF FetchLands, CloneLands, Transferred, Download, IInv, PhaseHasItsCall
<1>8. ASSUME NEW to, NEW with, Proceed(to, with), to \in CallPhases
      PROVE  FALSE
  BY <1>1, <1>8 DEF Proceed, CallPhases
<1>9. CASE \/ Start \/ NoCredentialsAsked \/ CredentialsAsked \/ Advertise
           \/ (credential_callback /\ ~\E f : Fail(f)) \/ (Judge /\ ~\E f : Fail(f))
  <2>1. \E to \in CallPhases : \E with : Proceed(to, with)
    BY <1>9 DEF Start, NoCredentialsAsked, CredentialsAsked, Advertise, credential_callback,
                Judge, CallPhases
  <2> QED
    BY <1>8, <2>1
<1>10. CASE Negotiate \/ ServerUpdates
  BY <1>1, <1>10 DEF Negotiate, ServerUpdates
<1>11. CASE HostCalls \/ Retry
  BY <1>1, <1>11 DEF HostCalls, FetchCall, PushCall, CloneCall, AddRemote, SetRemoteUrl,
                     RemoveRemote, Retry
<1>12. CASE Others \/ UNCHANGED vars
  BY <1>1, <1>12 DEF Others, ServerChanges, OthersPush, TerminalCommits, TerminalLocks,
                     TerminalConfigures, Outside, vars
<1> QED
  BY <1>3, <1>4, <1>5, <1>6, <1>7, <1>9, <1>10, <1>11, <1>12 DEF Next, CallSteps

\* A push is reported as done only if the server has had the commit on the
\* branch while the call ran, as refused only if it has not been put there, and
\* what a lost connection leaves open is retriable.
THEOREM PushesAreReported == Spec => PushIsAsReported
<1> DEFINE Reported ==
      Ends /\ call.kind = "push"
      => /\ result'.code = "OK" => landed
         /\ landed => result'.code = "OK" \/ result'.retriable
<1>1. IInv /\ [Next]_vars => Reported
  BY PushEnds
<1>2. UNCHANGED vars => Reported
  BY DEF vars, Ends, CallPhases
<1> QED
  BY <1>1, RemotesInvariant, PTL DEF Spec, PushIsAsReported

\* Of the steps of a call only the server's update touches a server.
LEMMA ServerMovers ==
  ASSUME [Next]_vars, outside' = outside, outside \in Nat
  PROVE  server' = server \/ ServerUpdates
<1>1. CASE Others
  <2>1. outside' = outside + 1
    BY <1>1 DEF Others, ServerChanges, OthersPush, TerminalCommits, TerminalLocks,
                TerminalConfigures, Outside
  <2> QED
    BY <2>1
<1>2. CASE HostCalls
  BY <1>2 DEF HostCalls, FetchCall, PushCall, CloneCall, Begin, AddRemote, SetRemoteUrl,
              RemoveRemote, Done, world
<1>3. CASE CallSteps
  <2>1. ASSUME NEW f, Fail(f) PROVE server' = server
    BY <2>1 DEF Fail, world
  <2>2. ASSUME NEW code, Refuse(code) PROVE server' = server
    BY <2>2 DEF Refuse, world
  <2>3. ASSUME NEW to, NEW with, Proceed(to, with) PROVE server' = server
    BY <2>3 DEF Proceed, world
  <2>4. CASE StartRefused \/ Start \/ CannotParse \/ Disconnected \/ RemoteMissing
    BY <2>1, <2>2, <2>3, <2>4 DEF StartRefused, Start, CannotParse, Disconnected, RemoteMissing
  <2>5. CASE NoCredentialsAsked \/ CredentialsAsked \/ Advertise \/ Download \/ Transferred
    BY <2>3, <2>5 DEF NoCredentialsAsked, CredentialsAsked, Advertise, Download, Transferred
  <2>6. CASE credential_callback
    BY <2>1, <2>3, <2>6 DEF credential_callback
  <2>7. CASE Judge
    BY <2>1, <2>3, <2>7 DEF Judge
  <2>8. CASE FetchLands \/ FetchBlocked \/ CloneLands \/ NegotiateRefuses
    BY <2>1, <2>8 DEF FetchLands, FetchBlocked, CloneLands, NegotiateRefuses, world
  <2>9. CASE Negotiate \/ PushReturns
    BY <2>9 DEF Negotiate, PushReturns, world
  <2> QED
    BY <1>3, <2>4, <2>5, <2>6, <2>7, <2>8, <2>9 DEF CallSteps
<1>4. CASE Retry \/ UNCHANGED vars
  BY <1>4 DEF Retry, Begin, world, vars
<1> QED
  BY <1>1, <1>2, <1>3, <1>4 DEF Next

\* No push takes a commit off a server's branch: the branch is as it was
\* advertised when it is updated, and the update follows that.
THEOREM PushesForward == Spec => ServerLosesNothing
<1> DEFINE Forward ==
      outside' = outside
      => \A u \in Urls : \A b \in Branches :
           LET old == server[u].refs[b] new == server'[u].refs[b] IN
           old # Absent => new # Absent /\ old \in Ancestors[new]
<1>1. IInv /\ [Next]_vars => Forward
  <2> SUFFICES ASSUME IInv, [Next]_vars, outside' = outside, NEW u \in Urls, NEW b \in Branches,
                      server[u].refs[b] # Absent
               PROVE  /\ server'[u].refs[b] # Absent
                      /\ server[u].refs[b] \in Ancestors[server'[u].refs[b]]
    OBVIOUS
  <2>1. server \in [Urls -> Servers] /\ outside \in Nat
    BY DEF IInv, TypeOK, WorldOK
  <2>2. server[u].refs[b] \in Commits
    BY <2>1 DEF Servers, Refs, OptionalCommit
  <2>3. CASE server'[u].refs[b] = server[u].refs[b]
    BY <2>2, <2>3
  <2>4. CASE ServerUpdates /\ server'[u].refs[b] # server[u].refs[b]
    <3>1. /\ There.refs[call.branch] = OldTip
          /\ server' = [server EXCEPT ![call.url].refs[call.branch] = call.new]
      BY <2>4 DEF ServerUpdates
    <3>2. u = call.url /\ b = call.branch /\ server'[u].refs[b] = call.new
      BY <2>1, <2>4, <3>1 DEF Servers, Refs
    <3>3. call.new \in Commits /\ (OldTip # Absent => OldTip \in Ancestors[call.new])
      BY <2>4 DEF ServerUpdates, IInv, UpdateIsForward
    <3> QED
      BY <3>1, <3>2, <3>3 DEF There
  <2> QED
    BY <2>1, <2>3, <2>4, ServerMovers
<1> QED
  BY <1>1, RemotesInvariant, PTL DEF Spec, ServerLosesNothing
=============================================================================
