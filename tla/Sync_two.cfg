\* Two processes search any scope of an fts+vector root while the user edits
\* twice.
SPECIFICATION Spec
CONSTANTS
  Proc = {z1, z2}
  p1 = p1
  p2 = p2
  Path = {p1, p2}
  Text = {t1, t2}
  Binary = Binary
  Blank = Blank
  Absent = Absent
  NoDoc = NoDoc
  NoProc = NoProc
  Scopes <- EachDir
  Alike <- NoneAlike
  Commands = {"search"}
  Levels = {"fts+vector"}
  MaxEdits = 2
  MaxCrashes = 0
SYMMETRY SymmetricPaths
INVARIANTS TypeOK StampFaithful NoDuplicateEmbedding VectorsComplete
PROPERTIES ScopedReconcile
