\* Two processes, every command, from an older zg's index, from a good one and
\* from nothing; one command may be killed.
SPECIFICATION Spec
CONSTANTS
  Proc = {z1, z2}
  Commands = {"init", "rebuild", "delete", "status", "search"}
  Levels = {"fts", "fts+vector"}
  Starts = {"nothing", "old", "current"}
  MaxCrashes = 1
SYMMETRY Symmetric
INVARIANTS TypeOK OldRowsNeverServedUnstamped RebuildRecovers
PROPERTIES FailureIsMarked
