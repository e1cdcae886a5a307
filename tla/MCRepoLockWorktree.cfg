\* A main checkout and a linked worktree of one repository, a process on each.
CONSTANTS
  p1 = p1  p2 = p2  a1 = a1  a2 = a2  b1 = b1
  main = main  linked = linked  git = git  gitWorktree = gitWorktree
  Nobody = Nobody
  Processes = {p1, p2}
  Threads = {a1, b1}
  ProcessOf <- TwoProcessesOneThread
  Paths = {main, linked}
  GitDirs = {git, gitWorktree}
  GitDir <- LinkedWorktree
SPECIFICATION Spec
INVARIANT OneOperationPerRepository
