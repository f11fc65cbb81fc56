\* Two processes search and rebuild for ever; the edits stop.
SPECIFICATION FairSpec
CONSTANTS
  Proc = {z1, z2}
  p1 = p1
  p2 = p2
  Path = {p1}
  Text = {t1}
  Binary = Binary
  Blank = Blank
  Absent = Absent
  NoDoc = NoDoc
  NoProc = NoProc
  Scopes <- Everywhere
  Alike <- NoneAlike
  Commands = {"search", "rebuild"}
  Levels = {"fts+vector"}
  MaxEdits = 2
  MaxCrashes = 0
PROPERTIES Converges
