\* Two processes call again and again; a transaction may take longer than the
\* budget; two faults.
SPECIFICATION FairSpec
CONSTANTS
  Proc = {z1, z2}
  NoProc = NoProc
  Budget = 5
  BusyWait = 2
  Doublings = 2
  Backoff <- Scaled
  MaxHold = 8
  MaxFaults = 2
INVARIANTS TypeOK AppliedOnce WaitBounded
PROPERTIES LastChance Ends
