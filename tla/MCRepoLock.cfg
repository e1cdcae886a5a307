\* Two processes, three threads, two paths that lead to one lock file: every
\* interleaving of operations, scopes, releases, timeouts, I/O errors, crashes;
\* and what ends if operations do.
CONSTANTS
  p1 = p1  p2 = p2  a1 = a1  a2 = a2  b1 = b1
  main = main  linked = linked  git = git  gitWorktree = gitWorktree
  Nobody = Nobody
  Processes = {p1, p2}
  Threads = {a1, a2, b1}
  ProcessOf <- TwoProcesses
  Paths = {main, linked}
  GitDirs = {git}
  GitDir <- AliasedCheckouts
SPECIFICATION FairSpec
INVARIANTS
  TypeOK
  MutualExclusion
  RunningIsCovered
  NoSelfWait
  HandleIsHeld
PROPERTIES
  ImplementsExclusiveAccess
  CallsSettle
  ScopeCallReturns
