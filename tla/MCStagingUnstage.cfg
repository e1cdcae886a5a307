\* Whether unstage resets every path that HEAD has.
CONSTANTS
  page = page  notes = notes  A = A  B = B  Absent = Absent
  Paths = {page, notes}
  Contents = {A, B}
  Directories <- OneFile
  MaxCommits = 2
  MaxOutside = 1
SPECIFICATION Spec
SYMMETRY Interchange
PROPERTY UnstageMatchesHead
