\* Two files that share texts, documents of one or two chunks, and one rowid
\* more than the texts so that a freed number is handed out again.
SPECIFICATION Spec
CONSTANTS
  Path = {p1, p2}
  Key = {k1, k2}
  MaxChunks = 2
  MaxId = 3
  NoRow = NoRow
  NoDoc = NoDoc
SYMMETRY Symmetric
INVARIANTS TypeOK RefCountExact SharedRowsSound FtsMirrorsRefs VectorsOwnText NoOrphans EmbedsOnce
PROPERTIES KeepsSharedRows ImplementsDocIndex
