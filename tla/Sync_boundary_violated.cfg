\* Two processes: a search's own work can be undone by a slower one before it
\* queries.
SPECIFICATION Spec
CONSTANTS
  Proc = {z1, z2}
  p1 = p1
  p2 = p2
  Path = {p1}
  Text = {t1, t2}
  Binary = Binary
  Blank = Blank
  Absent = Absent
  NoDoc = NoDoc
  NoProc = NoProc
  Scopes <- Everywhere
  Alike <- NoneAlike
  Commands = {"search"}
  Levels = {"fts+vector"}
  MaxEdits = 2
  MaxCrashes = 0
SYMMETRY Symmetric
INVARIANTS SyncBoundary
