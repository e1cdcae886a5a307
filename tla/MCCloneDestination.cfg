\* Three clones into one destination, two of one process, retries and crashes.
CONSTANTS
  p1 = p1  p2 = p2  t1 = t1  t2 = t2  t3 = t3
  Names = {git, page}  GitDir = git
  git = git  page = page
  Others = Others  Nobody = Nobody
  Processes = {p1, p2}
  Threads = {t1, t2, t3}
  ProcessOf <- ThreeClones
SPECIFICATION Spec
INVARIANTS
  TypeOK
PROPERTIES
  WinnerIsSafeFromItsOwn
  OthersKeepTheirFiles
  RetryMeetsNothingOfItsOwn
