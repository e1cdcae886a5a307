\* One status of two files, an editor and git in a terminal.
CONSTANTS
  page = page  draft = draft  A = A  B = B  link = link
  Absent = Absent  Unmerged = Unmerged
  Paths = {page, draft}
  Contents = {A, B, link}
  Links = {link}
  Ignored = {}
  Similar <- TextsAlike
  MaxOutside = 1
SPECIFICATION Spec
PROPERTY CleanAgrees
