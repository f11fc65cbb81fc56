\* Any directory of MCDocumentLoader, any command, up to five threads, one
\* edit while it runs.
SPECIFICATION MCSpec
CONSTANTS
  Inputs <- Dirs
  Versions <- Written
  Absent = Absent
  NoDoc = NoDoc
  Unset = Unset
  Threads = {Unset, 2, 5}
  Available = 4
  MaxWorkers = 3
  Recommended <- Chunks
  Multiplier = 2
  TermLimit = 3
  Commands = {"init", "init-force", "search"}
  MaxEdits = 1
CHECK_DEADLOCK FALSE
INVARIANTS TypeOK InputOrder FirstErrorWins NoThreadLeftBehind ForceGate TextIsCovered SymbolsOwnTheirTerms
PROPERTIES Ends
