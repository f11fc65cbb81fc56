\* Roots in any of three nested directories, valid or not; one edit, two steps
\* of other commands, two faults.
SPECIFICATION Spec
CONSTANTS
  Depth = 3
  Scopes <- Asked
  MaxEdits = 1
  MaxCommands = 2
  MaxFaults = 2
INVARIANTS NearestIsCurrent OuterRootsDoNotFail CoveringRootsSettled
