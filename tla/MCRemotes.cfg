\* One remote, its server, other people, git in a terminal; hosts that retry.
CONSTANTS
  base = base  ours = ours  theirs = theirs  main = main  nowhere = nowhere
  hub = hub  typo = typo  Absent = Absent
  Commits = {base, ours, theirs}
  Ancestors <- History
  Branches = {main}
  Urls = {hub, typo}
  Misspelt = {typo}
  Doors <- AnyDoor
  Chosen = {main, nowhere, Absent}
  InitialRefs <- Starts
  Hosted <- Starts
  Credentials = {{}, {"key", "password"}}
  MaxAttempts = 2
  MaxOutside = 3
SPECIFICATION FairSpec
INVARIANT TypeOK
PROPERTIES
  PushIsAsReported
  ServerLosesNothing
  RetryLoopEnds
