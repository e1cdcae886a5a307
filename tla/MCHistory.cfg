\* Deleted files of two repositories, and a host that turns pages.
CONSTANTS
  root = root  side = side  merge = merge  none = none
  repo = repo  other = other  chapter = chapter  moved = moved  note = note
  T1 = T1  T2 = T2
  Repos = {repo, other}
  Starts = {side}
  Commits = {root, side, merge}
  NoCommit = none
  Paths = {chapter, moved, note}
  Tree <- Trees
  Parent <- Parents
  Walk <- Walks
  FileName <- Names
  Readers = {T1, T2}
  Limits = {2}
  PageSizes = {1, 2}
  MaxDeleted = 2
  TTL = 2
  MaxCalls = 3
  MaxTime = 2
  MaxMoves = 2
SPECIFICATION Spec
SYMMETRY Alike
INVARIANTS
  ListIsOfItsTime
  PagesMissNothing
CHECK_DEADLOCK FALSE
