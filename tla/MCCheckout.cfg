\* Two calls beside an editor, git in a terminal and another worktree.
CONSTANTS
  root = root  side = side  tip = tip  top = top
  main = main  topic = topic  page = page  notes = notes
  A = A  B = B  C = C  Absent = Absent
  Commits = {root, side, tip, top}
  Branches = {main, topic}
  Paths = {page, notes}
  Contents = {A, B, C}
  Tree <- Trees
  Ancestors <- History
  InitialRefs <- FewStarts
  InitialHeads = {main}
  Strategies = {TRUE, FALSE}
  MaxCalls = 2
  MaxOutside = 2
SPECIFICATION Spec
INVARIANT TypeOK
PROPERTIES
  RefusalTouchesNothing
  UncommittedWorkSurvives
  OnlyOwnChangesAreCarried
  OnlyFreeBranchesAreTaken
  ForwardOnlyAdvances
  UnforcedDeleteLosesNothing
