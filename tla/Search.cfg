\* One search of two files; the user edits once and another process rebuilds.
SPECIFICATION Spec
CONSTANTS
  a = a
  b = b
  Path = {a, b}
  Lexical = {"phrase", "word", "doc"}
  Literal = {"phrase", "doc", "use"}
  Similar = {"near", "doc"}
  Outside = {"use"}
  Bodies <- FilesOf
  Absent = Absent
  NoLine = NoLine
  Scopes <- AllOrOne
  Levels = {"fts", "fts+vector"}
  CandidateLimit = 3
  SemanticLimit = 1
  Limit = 2
  MaxEdits = 1
  MaxCommits = 1
INVARIANTS TypeOK QuietAnswer SemanticTail HitsTrue
