\* One process, every command, two edits, one crash.
SPECIFICATION Spec
CONSTANTS
  Proc = {z1}
  p1 = p1
  p2 = p2
  Path = {p1, p2}
  Text = {t1, t2}
  Binary = Binary
  Blank = Blank
  Absent = Absent
  NoDoc = NoDoc
  NoProc = NoProc
  Scopes <- EachDir
  Alike <- NoneAlike
  Commands = {"search", "rebuild", "rebuild fts", "rebuild fts+vector"}
  Levels = {"fts", "fts+vector"}
  MaxEdits = 2
  MaxCrashes = 1
SYMMETRY SymmetricPaths
INVARIANTS SyncBoundary
