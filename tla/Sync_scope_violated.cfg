\* A directory whose name is a LIKE pattern for its sibling's.
SPECIFICATION Spec
CONSTANTS
  Proc = {z1}
  p1 = p1
  p2 = p2
  Path = {p1, p2}
  Text = {t1, t2}
  Binary = Binary
  Blank = Blank
  Absent = Absent
  NoDoc = NoDoc
  NoProc = NoProc
  Scopes <- EachDir
  Alike <- WildcardName
  Commands = {"search"}
  Levels = {"fts+vector"}
  MaxEdits = 2
  MaxCrashes = 0
SYMMETRY Symmetric
PROPERTIES ScopedReconcile
