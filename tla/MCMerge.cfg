\* A merge and its resolution beside an editor, a terminal, another worktree.
CONSTANTS
  root = root  left = left  right = right  plain = plain  gone = gone  knot = knot
  main = main  topic = topic  lost = lost  page = page  notes = notes
  A = A  B = B  D = D  Absent = Absent
  Commits <- AllCommits
  Branches = {main, topic, lost}
  Paths = {page, notes}
  Contents = {A, B, D}
  Tree <- AllTrees
  Ancestors <- History
  Parents <- AllParents
  Known = {left, gone, knot}
  InitialHeads = {main, left}
  Resolutions <- Lists
  InitialRefs <- Starts
  Strategies = {FALSE}
  MaxCalls = 2
  MaxOutside = 1
SPECIFICATION Spec
INVARIANT TypeOK
PROPERTIES
  RefusalTouchesNothing
  UncommittedWorkSurvives
  MergeLandsWhole
  ResolutionIsComplete
  EditedPagesAreNamed
