\* Maintenance beside a status, an editor and git in a terminal.
CONSTANTS
  page = page  draft = draft  A = A  B = B  name = name  email = email  me = me
  origin = origin  backup = backup  v1 = v1  old1 = old1  new1 = new1
  ConfigFile = ConfigFile  IndexFile = IndexFile  HeadFile = HeadFile
  Absent = Absent  Unmerged = Unmerged
  Paths = {page, draft}
  Contents = {A}
  Links = {}
  Ignored = {}
  Similar <- TextsAlike
  Targets = {old1, new1}
  TagNames = {v1}
  Keys <- Order
  Values = {me}
  Global <- NoGlobal
  Remotes = {origin, backup}
  ConfigLock = ConfigFile  IndexLock = IndexFile  HeadLock = HeadFile
  MaxOutside = 2
  MaxCalls = 1
SPECIFICATION UpkeepSpec
PROPERTIES
  StatusMissesNoChange
  RepairedIsHealthy
  SuccessIsComplete
  TagsMoveOnlyByForce
CHECK_DEADLOCK FALSE
