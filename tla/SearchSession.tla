---------------------------- MODULE SearchSession ----------------------------
(***************************************************************************)
(* One indexed search after its reconcile: the statements of               *)
(* search_indexed_with_context (src/src/index/hybrid.rs) while the user    *)
(* edits files and other zg processes commit.                              *)
(*                                                                         *)
(* There is no read transaction around them.  The lexical rows, the stored *)
(* chunk of every ripgrep hit and the vector rows come from separate       *)
(* SELECTs, are merged by chunk_refs.id, and are shown with text that is   *)
(* read from the live files in the end.                                    *)
(*                                                                         *)
(* The query is fixed: Lexical, Literal and Similar say which lines each   *)
(* of the three channels finds.  A line is a chunk, unless it is one of    *)
(* the lines of code that belong to no symbol.  Scores only decide the     *)
(* order of hits of equal source_priority, which is left open here.        *)
(***************************************************************************)
EXTENDS Integers, Sequences, FiniteSets, FiniteSetsExt

CONSTANTS
  Path,            \* files under the root
  Lexical,         \* lines with a term of the query (FTS5)
  Literal,         \* lines that contain the query (rg --fixed-strings)
  Similar,         \* lines whose vector is close enough to the query's
  Outside,         \* lines that no chunk covers
  Bodies,          \* what a file may hold: sequences of lines
  Absent,          \* no file
  NoLine,          \* a hit without a literal preview
  Scopes,          \* sets of paths a search may be limited to
  Levels,          \* index levels the root may have
  CandidateLimit,  \* FTS_CANDIDATE_LIMIT and VECTOR_CANDIDATE_LIMIT
  SemanticLimit,   \* MAX_SEMANTIC_ONLY_HITS_WITH_LEXICAL
  Limit,           \* hits on a page
  MaxEdits,        \* bound: edits
  MaxCommits       \* bound: transactions of other processes

ASSUME SearchSessionAssumption ==
  /\ IsFiniteSet(Path)
  /\ Absent \notin Bodies
  /\ \A body \in Bodies : Len(body) \in Nat /\ DOMAIN body = 1..Len(body)
  /\ Scopes \subseteq SUBSET Path
  /\ Levels \subseteq {"fts", "fts+vector"}
  /\ {CandidateLimit, SemanticLimit, Limit, MaxEdits, MaxCommits} \subseteq Nat

VARIABLES
  disk,        \* what each path holds
  refs,        \* chunk_refs, each with the text its FTS row and vector are of
  level,       \* settings.index_level; the vectors are those of this level
  edits, commits,
  pc, scope, context,
  hybrid,      \* the level was fts+vector when the search looked
  lexical,     \* rows of lexical_candidates
  found,       \* lines rg has reported
  unread,      \* files rg has not come to yet
  literal,     \* rows of literal_candidates, with the line they were found by
  vector,      \* rows of vector_candidates
  live,        \* file bodies as materialize_live_snippets read them
  answer,      \* the hits that are printed
  quiet,       \* history: nobody edited or committed since the reconcile
  overtaken,   \* history: somebody committed since the query began
  shown        \* history: the lines that files held since the query began

world   == <<disk, refs, level, edits, commits>>
rows    == <<lexical, found, unread, literal, vector, live>>
session == <<pc, scope, context, hybrid, rows, answer>>
history == <<quiet, overtaken, shown>>
vars    == <<world, session, history>>

-----------------------------------------------------------------------------
(* Documents and rows *)

\* The lines of a body that are chunks, and the chunk index of such a line.
ChunkLines(body) == {n \in DOMAIN body : body[n] \notin Outside}
IndexOf(body, n) == Cardinality({m \in ChunkLines(body) : m < n})

\* The text of the chunk with this index in a body that has one.
ChunkText(body, i) ==
  body[CHOOSE n \in ChunkLines(body) : IndexOf(body, n) = i]

LastId(rs) == Max({r.id : r \in rs} \cup {0})

\* Mutation of Upserted: numbers the rows by how many there are.
UpsertedByCount(rs, p, body) ==
  LET rest == {r \in rs : r.file # p}
  IN  rest \cup {[id |-> Cardinality(rest) + 1 + IndexOf(body, n), file |-> p,
                  index |-> IndexOf(body, n), line |-> n, text |-> body[n]] :
                 n \in ChunkLines(body)}

\* upsert_document: old rows out, new ones in with the next rowids.
Upserted(rs, p, body) ==
  LET rest == {r \in rs : r.file # p}
  IN  rest \cup {[id |-> LastId(rest) + 1 + IndexOf(body, n), file |-> p,
                  index |-> IndexOf(body, n), line |-> n, text |-> body[n]] :
                 n \in ChunkLines(body)}

\* The rows of a rebuild, whose walk may meet the files in any order.
Rebuilt(order) ==
  LET upTo[n \in 0..Cardinality(Path)] ==
        IF n = 0 THEN {}
        ELSE IF disk[order[n]] = Absent THEN upTo[n - 1]
        ELSE Upserted(upTo[n - 1], order[n], disk[order[n]])
  IN  upTo[Cardinality(Path)]

Orders == {o \in [1..Cardinality(Path) -> Path] :
             \A i, j \in DOMAIN o : o[i] = o[j] => i = j}

\* The rows of a path say what it holds.
Fresh(p) ==
  {<<r.line, r.text>> : r \in {x \in refs : x.file = p}} =
    IF disk[p] = Absent THEN {} ELSE {<<n, disk[p][n]>> : n \in ChunkLines(disk[p])}

LinesOf(d) ==
  UNION {{[file |-> p, line |-> n, text |-> d[p][n]] : n \in DOMAIN d[p]} :
         p \in {q \in Path : d[q] # Absent}}

\* The first k of a list whose order is left open.
Cut(k, S) == kSubset(IF Cardinality(S) < k THEN Cardinality(S) ELSE k, S)

Goto(label) == pc' = label

-----------------------------------------------------------------------------
Init ==
  /\ disk \in [Path -> Bodies \cup {Absent}]
  /\ \E order \in Orders : refs = Rebuilt(order)
  /\ level \in Levels
  /\ edits = 0 /\ commits = 0
  /\ pc = "idle" /\ scope = {} /\ context = FALSE /\ hybrid = FALSE
  /\ lexical = {} /\ found = {} /\ unread = {} /\ literal = {} /\ vector = {}
  /\ live = <<>> /\ answer = {}
  /\ quiet = TRUE /\ overtaken = FALSE /\ shown = {}

-----------------------------------------------------------------------------
(* The world around the search *)

Edit(p, body) ==
  /\ edits < MaxEdits /\ body # disk[p]
  /\ edits' = edits + 1
  /\ disk' = [disk EXCEPT ![p] = body]
  /\ quiet' = FALSE
  /\ shown' = IF pc = "idle" THEN {} ELSE shown \cup LinesOf(disk')
  /\ UNCHANGED <<refs, level, commits, session, overtaken>>

\* A reconcile, this search's own or another one's, brings a path up to date.
Reindex(p) ==
  /\ ~Fresh(p)
  /\ refs' = IF disk[p] = Absent THEN {r \in refs : r.file # p}
             ELSE Upserted(refs, p, disk[p])
  /\ quiet' = FALSE /\ overtaken' = TRUE
  /\ UNCHANGED <<disk, level, edits, commits, session, shown>>

\* Another process rebuilds the root, perhaps to another level.
Rebuild(order, to) ==
  /\ commits < MaxCommits
  /\ commits' = commits + 1
  /\ refs' = Rebuilt(order)
  /\ level' = to
  /\ quiet' = FALSE /\ overtaken' = TRUE
  /\ UNCHANGED <<disk, edits, session, shown>>

-----------------------------------------------------------------------------
(* The search *)

\* Its reconcile is over.
Start(s, c) ==
  /\ pc = "idle" /\ \A p \in s : Fresh(p)
  /\ Goto("level")
  /\ scope' = s /\ context' = c
  /\ quiet' = TRUE
  /\ UNCHANGED <<world, hybrid, rows, answer, overtaken, shown>>

\* load_index_level; the query begins.
ReadLevel ==
  /\ pc = "level"
  /\ hybrid' = (level = "fts+vector")
  /\ Goto("lexical")
  /\ overtaken' = FALSE /\ shown' = LinesOf(disk)
  /\ UNCHANGED <<world, scope, context, rows, answer, quiet>>

ReadLexical ==
  /\ pc = "lexical"
  /\ lexical' \in Cut(CandidateLimit, {r \in refs : r.file \in scope /\ r.text \in Lexical})
  /\ unread' = scope
  /\ Goto("rg")
  /\ UNCHANGED <<world, scope, context, hybrid, found, literal, vector, live, answer, history>>

\* rg reads one file after the other.
Grep(p) ==
  /\ pc = "rg" /\ p \in unread
  /\ unread' = unread \ {p}
  /\ found' = found \cup {l \in LinesOf(disk) : l.file = p /\ l.text \in Literal}
  /\ UNCHANGED <<world, pc, scope, context, hybrid, lexical, literal, vector, live,
                 answer, history>>

\* Mutation of Covering: forgets the path of the hit.
CoveringAnywhere(hit) == {r \in refs : r.line = hit.line}

\* The stored chunk around a line rg has reported; there may be none.
Covering(hit) == {r \in refs : r.file = hit.file /\ r.line = hit.line}

\* One SELECT per hit, once rg is done; a chunk is listed once.
Lookup(hit) ==
  /\ pc = "rg" /\ unread = {} /\ hit \in found
  /\ found' = found \ {hit}
  /\ \/ \E r \in Covering(hit) :
          literal' = IF \E l \in literal : l.row.id = r.id THEN literal
                     ELSE literal \cup {[row |-> r, line |-> hit.text]}
     \/ Covering(hit) = {} /\ literal' = literal
  /\ UNCHANGED <<world, pc, scope, context, hybrid, lexical, unread, vector, live,
                 answer, history>>

\* The nearest shared texts of the scope, and every chunk that has one.
ReadVector ==
  /\ pc = "rg" /\ unread = {} /\ found = {}
  /\ LET near == IF hybrid /\ level = "fts+vector"
                 THEN {r \in refs : r.file \in scope /\ r.text \in Similar} ELSE {}
     IN  \E texts \in Cut(CandidateLimit, {r.text : r \in near}) :
           vector' = {r \in near : r.text \in texts}
  /\ Goto("snippets")
  /\ UNCHANGED <<world, scope, context, hybrid, lexical, found, unread, literal, live,
                 answer, history>>

-----------------------------------------------------------------------------
(* merge_ranked_hits: one hit per chunk_refs.id *)

Ids(rs) == {r.id : r \in rs}

\* Mutation of Merged: keeps the sources of the first row with an id only.
MergedByFirst ==
  LET lit == {l.row : l \in literal}
  IN  {LET first == CHOOSE r \in lexical \cup lit \cup vector : r.id = id
       IN  [file |-> first.file, index |-> first.index,
            f |-> first \in lexical, r |-> first \in lit \ lexical,
            v |-> first \in vector \ (lexical \cup lit),
            line |-> IF first \in lit \ lexical
                     THEN (CHOOSE l \in literal : l.row.id = id).line ELSE NoLine] :
         id \in Ids(lexical \cup lit \cup vector)}

\* What a row says of its chunk is taken from the first list that has the id.
Merged ==
  LET lit == {l.row : l \in literal}
  IN  {LET from == IF id \in Ids(lexical) THEN lexical
                   ELSE IF id \in Ids(lit) THEN lit ELSE vector
           first == CHOOSE r \in from : r.id = id
       IN  [file |-> first.file, index |-> first.index,
            f |-> id \in Ids(lexical), r |-> id \in Ids(lit), v |-> id \in Ids(vector),
            line |-> IF id \in Ids(lit)
                     THEN (CHOOSE l \in literal : l.row.id = id).line ELSE NoLine] :
         id \in Ids(lexical \cup lit \cup vector)}

-----------------------------------------------------------------------------
(* materialize_live_snippets *)

ReadLive(p) ==
  /\ pc = "snippets" /\ p \in {h.file : h \in Merged} \ DOMAIN live
  /\ live' = [q \in DOMAIN live \cup {p} |-> IF q = p THEN disk[p] ELSE live[q]]
  /\ UNCHANGED <<world, pc, scope, context, hybrid, lexical, found, unread, literal,
                 vector, answer, history>>

\* The file still has a chunk with the index of the hit's.
StillThere(h) ==
  live[h.file] # Absent /\ h.index < Cardinality(ChunkLines(live[h.file]))

\* A hit without a preview whose chunk has gone is dropped, and with -C every
\* hit of a file that has gone.
Kept(h) == StillThere(h) \/ (h.r /\ (~context \/ live[h.file] # Absent))

\* With -C the chunk and its neighbours are shown, without it rg's line.
Snippet(h) ==
  IF h.r /\ (~context \/ ~StillThere(h)) THEN h.line
  ELSE ChunkText(live[h.file], h.index)

Hit(h) == [file |-> h.file, index |-> h.index, f |-> h.f, r |-> h.r, v |-> h.v,
           snippet |-> Snippet(h)]

Materialized == {Hit(h) : h \in {m \in Merged : Kept(m)}}

-----------------------------------------------------------------------------
(* limit_semantic_only_hits and truncate *)

IsText(h) == h.f \/ h.r
AsInt(b) == IF b THEN 1 ELSE 0
Sources(h) == AsInt(h.r) + AsInt(h.f) + AsInt(h.v)

\* Mutation of Priority: compares only how many sources found a hit.
PriorityBySources(h) == Sources(h)

\* source_priority, a tuple of small numbers compared from the left.
Priority(h) == 1000 * AsInt(h.r) + 100 * Sources(h) + 10 * AsInt(h.f) + AsInt(h.v)

\* The hits that may be on the page.
Pages(hits) ==
  LET text == {h \in hits : IsText(h)}
      pools == IF text = {} THEN {hits}
               ELSE {text \cup tail : tail \in Cut(SemanticLimit, hits \ text)}
  IN  UNION {{page \in Cut(Limit, pool) :
                \A on \in page, off \in pool \ page : Priority(on) >= Priority(off)} :
               pool \in pools}

ShowPage ==
  /\ pc = "snippets" /\ {h.file : h \in Merged} \subseteq DOMAIN live
  /\ answer' \in Pages(Materialized)
  /\ Goto("answered")
  /\ UNCHANGED <<world, scope, context, hybrid, rows, history>>

\* The process ends, after its answer or with an error from any statement
\* before.
End ==
  /\ pc # "idle"
  /\ Goto("idle") /\ scope' = {} /\ context' = FALSE /\ hybrid' = FALSE
  /\ lexical' = {} /\ found' = {} /\ unread' = {} /\ literal' = {} /\ vector' = {}
  /\ live' = <<>> /\ answer' = {}
  /\ quiet' = TRUE /\ overtaken' = FALSE /\ shown' = {}
  /\ UNCHANGED world

-----------------------------------------------------------------------------
Next ==
  \/ \E p \in Path : \/ \E body \in Bodies \cup {Absent} : Edit(p, body)
                     \/ Reindex(p) \/ Grep(p) \/ ReadLive(p)
  \/ \E order \in Orders, to \in Levels : Rebuild(order, to)
  \/ \E s \in Scopes, c \in BOOLEAN : Start(s, c)
  \/ \E hit \in found : Lookup(hit)
  \/ ReadLevel \/ ReadLexical \/ ReadVector \/ ShowPage \/ End

Spec == Init /\ [][Next]_vars

-----------------------------------------------------------------------------
(* Properties *)

\* Every variable holds a value of its type, and the keys of chunk_refs are
\* unique: the rowid by which hits are merged, and (file, chunk index).
TypeOK ==
  /\ disk \in [Path -> Bodies \cup {Absent}] /\ level \in Levels
  /\ edits \in 0..MaxEdits /\ commits \in 0..MaxCommits
  /\ \A r, s \in refs : r.id = s.id \/ <<r.file, r.index>> = <<s.file, s.index>> => r = s
  /\ pc \in {"idle", "level", "lexical", "rg", "snippets", "answered"}
  /\ scope \in Scopes \cup {{}} /\ unread \subseteq scope
  /\ {context, hybrid, quiet, overtaken} \subseteq BOOLEAN
  /\ DOMAIN live \subseteq Path

\* What a chunk of the disk is found by.
Truth ==
  UNION {LET d == disk[p]
         IN  {[file |-> p, index |-> IndexOf(d, n), f |-> d[n] \in Lexical,
               r |-> d[n] \in Literal, v |-> hybrid /\ d[n] \in Similar] :
                n \in {m \in ChunkLines(d) :
                         d[m] \in Lexical \cup Literal \/ (hybrid /\ d[m] \in Similar)}} :
         p \in {q \in scope : disk[q] # Absent}}

Labels(h) == [file |-> h.file, index |-> h.index, f |-> h.f, r |-> h.r, v |-> h.v]

\* When nothing happens meanwhile, a search finds exactly the chunks that match,
\* each labelled with all the channels that found it, and leaves out only what
\* is semantic beyond the limit or worse than a full page.
QuietAnswer ==
  pc = "answered" /\ quiet /\ Cardinality(Truth) <= CandidateLimit =>
    LET got == {Labels(h) : h \in answer}
    IN  /\ got \subseteq Truth
        /\ \A t \in Truth \ got :
             \/ Cardinality(answer) = Limit /\ \A g \in got : Priority(g) >= Priority(t)
             \/ /\ ~IsText(t) /\ \E x \in Truth : IsText(x)
                /\ Cardinality({g \in got : ~IsText(g)}) = SemanticLimit

\* Vectors never hide text: once some hit is textual, semantic ones are at most
\* a tail of the fixed length, and they are only there when every text hit is,
\* whatever is edited and committed meanwhile.
SemanticTail ==
  pc = "answered" =>
    LET text == {h \in Materialized : IsText(h)}
        tail == {h \in answer : ~IsText(h)}
    IN  /\ text # {} => Cardinality(tail) <= SemanticLimit
        /\ tail # {} => text \subseteq answer

\* As long as no other process commits, and however the user edits the files
\* meanwhile: every hit names a chunk of the index and shows a line that its
\* file held during the query; its full-text and vector labels are true of the
\* text the index has for that chunk.  Its literal label is rg's, which reads
\* the files and not the index: it means that the line where that chunk stands
\* held the query at some moment of the search.  After an edit the chunk's
\* stored text need not contain it.
HitsTrue ==
  pc = "answered" /\ ~overtaken =>
    \A h \in answer :
      /\ \E l \in shown : l.file = h.file /\ l.text = h.snippet
      /\ \E row \in refs :
           /\ <<row.file, row.index>> = <<h.file, h.index>>
           /\ (h.f => row.text \in Lexical) /\ (h.v => row.text \in Similar)
           /\ h.r => \E l \in shown : /\ <<l.file, l.line>> = <<row.file, row.line>>
                                     /\ l.text \in Literal
=============================================================================
