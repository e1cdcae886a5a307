\* An editor, and git in a terminal, beside the library.
CONSTANTS
  page = page  notes = notes  A = A  B = B  Absent = Absent
  Paths = {page, notes}
  Contents = {A, B}
  Directories <- OneFile
  MaxCommits = 2
  MaxOutside = 2
SPECIFICATION Spec
SYMMETRY Interchange
INVARIANT TypeOK
PROPERTIES
  CommitHoldsWhatWasOnDisk
  FailedPathsChangeNothing
  CommitsFollowHead
  RestoreSparesEdits
