----------------------------- MODULE TextChunks -----------------------------
(***************************************************************************)
(* How a document that is not code becomes chunks (src/src/index/files.rs, *)
(* build_chunks): one chunk per line, cut further at the marker " :: ",    *)
(* then neighbouring short pieces put together again.                      *)
(*                                                                         *)
(* A body is a sequence of lines, a line the sequence of its segments, and *)
(* a segment what the chunker can tell of it: "blank" (nothing but white   *)
(* space), "short" (fewer than 48 characters without its list or heading   *)
(* mark) or "long".  A segment that is not blank still has text when its   *)
(* mark is gone and its white space folded, so the two later checks for    *)
(* empty text never drop one.                                              *)
(***************************************************************************)
EXTENDS Integers, SequencesExt, Positions

Segment == {"blank", "short", "long"}

\* The pieces of a body in reading order, each on its line.
BaseChunks(lines) ==
  FlattenSeq([i \in DOMAIN lines |->
    LET pieces == Ascending({j \in DOMAIN lines[i] : lines[i][j] # "blank"}, Len(lines[i]))
    IN  [k \in DOMAIN pieces |-> [line |-> i, short |-> lines[i][pieces[k]] = "short"]]])

Single(base, i) == [first |-> base[i].line, last |-> base[i].line,
                    short |-> base[i].short, parts |-> <<i>>]

Extend(merged, base, i) ==
  [merged EXCEPT ![Len(merged)].parts = Append(@, i), ![Len(merged)].last = base[i].line]

\* Mutation of Joins: looks only at the chunk so far.
JoinsShort(merged, base, i) == merged # <<>> /\ Last(merged).short

\* A short piece joins the chunk before it when that one is short too; neither
\* blank lines nor the marker keep them apart.
Joins(merged, base, i) == merged # <<>> /\ Last(merged).short /\ base[i].short

\* merge_short_text_chunks
MergeShortTextChunks(base) ==
  LET merge[i \in 0..Len(base)] ==
        IF i = 0 THEN <<>>
        ELSE LET merged == merge[i - 1] IN
             IF Joins(merged, base, i) THEN Extend(merged, base, i)
             ELSE Append(merged, Single(base, i))
  IN  merge[Len(base)]

BuildChunks(lines) == MergeShortTextChunks(BaseChunks(lines))

-----------------------------------------------------------------------------
\* Reference: pieces i and j belong together exactly when everything from i
\* to j is short.
Together(base, i, j) ==
  i = j \/ \A k \in (IF i < j THEN i..j ELSE j..i) : base[k].short

\* What the chunks of a body keep of it: every piece is in one of them, in
\* reading order and only once; a long piece is a chunk of its own, so that its
\* text and its vector are nobody else's; the range of a chunk is exactly from
\* its first piece's line to its last one's, and no line with text is outside
\* every range, so that a hit of rg on any line can be matched to a chunk.
ChunksCover(lines) ==
  LET base   == BaseChunks(lines)
      chunks == BuildChunks(lines)
  IN  /\ FlattenSeq([c \in DOMAIN chunks |-> chunks[c].parts]) = [i \in DOMAIN base |-> i]
      /\ \A c \in DOMAIN chunks :
           /\ Len(chunks[c].parts) > 1 => \A i \in ToSet(chunks[c].parts) : base[i].short
           /\ chunks[c].first = base[Head(chunks[c].parts)].line
           /\ chunks[c].last = base[Last(chunks[c].parts)].line
      /\ \A i \in DOMAIN lines :
           (\E s \in ToSet(lines[i]) : s # "blank") =>
             \E c \in DOMAIN chunks : i \in chunks[c].first..chunks[c].last

\* Which pieces merge_short_text_chunks puts together: two are in one chunk
\* exactly when everything from the one to the other is short.
ChunksAreRuns(lines) ==
  LET base   == BaseChunks(lines)
      chunks == BuildChunks(lines)
  IN  \A c, d \in DOMAIN chunks : \A i \in ToSet(chunks[c].parts), j \in ToSet(chunks[d].parts) :
        Together(base, i, j) <=> c = d

\* What the documents say of the chunks: every line is one, and the marker cuts
\* a line further; no two pieces share a chunk.
PiecesStayApart(lines) ==
  LET chunks == BuildChunks(lines)
  IN  \A c \in DOMAIN chunks : Len(chunks[c].parts) = 1
=============================================================================
