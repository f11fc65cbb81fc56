----------------------------- MODULE ChunkStore -----------------------------
(***************************************************************************)
(* The tables of .zg/index.db and the one writer that may change them,     *)
(* statement group by statement group, inside its IMMEDIATE transaction    *)
(* (src/src/index/db.rs, driven by the two closures in sync.rs).           *)
(*                                                                         *)
(* The tables below are the writer's own view; `saved` is the last         *)
(* committed view, the one every reader has and the one a crash, an        *)
(* embedder failure or any other error falls back to.                      *)
(*                                                                         *)
(* A row is identified by what the schema makes unique: a file by its      *)
(* path, a chunk reference and its FTS row by (file, chunk index).  Rowids *)
(* of shared_chunks are kept, because vec_chunks and vec_index know a text *)
(* only by that number and SQLite hands a freed number out again.          *)
(***************************************************************************)
EXTENDS Integers, FiniteSets

CONSTANTS
  Path,        \* relative paths
  Key,         \* shared chunk texts
  MaxChunks,   \* bound: chunks of one document
  MaxId,       \* bound: largest rowid of shared_chunks
  NoRow,       \* "there is no such row"
  NoDoc        \* "no document"

ASSUME ChunkStoreAssumption ==
  /\ IsFiniteSet(Path)
  /\ MaxChunks \in Nat \ {0}
  /\ MaxId \in Nat
  /\ NoRow \notin Key
  /\ \A n \in 1..MaxChunks : NoDoc \notin [1..n -> Key]

Id == 1..MaxId

\* A loaded document is the sequence of its chunks' shared texts.
Doc == UNION {[1..n -> Key] : n \in 1..MaxChunks}

KeysOf(doc) == {doc[i] : i \in DOMAIN doc}

ChunkRef == [file : Path, index : 1..MaxChunks, shared : Id]
FtsRow   == [file : Path, index : 1..MaxChunks, text : Key]

VARIABLES
  files,       \* files: the paths with a row
  refs,        \* chunk_refs
  fts,         \* fts_chunks
  sharedKey,   \* shared_chunks: the text of each rowid
  refCount,    \* shared_chunks.ref_count
  vecChunks,   \* vec_chunks: the text each rowid's vector was computed from
  vecIndex,    \* vec_index: likewise, in the searchable copy
  saved,       \* the tables as last committed
  pc,          \* "idle", "open", "doc", "collected"
  kind,        \* which closure is running: "reconcile" or "rebuild"
  vectors,     \* the index_level the closure was given, vectors_enabled()
  todo,        \* pending_upserts not yet written
  gone,        \* pending_deletes not yet executed
  prepared,    \* texts embedded up front for this transaction
  embeds,      \* how often each text went to the embedder in it
  cur,         \* the document being written: its path,
  pos,         \*   the next chunk,
  oldCounts,   \*   the references its previous version held, per rowid,
  newCounts    \*   and the ones it holds so far

tables == <<files, refs, fts, sharedKey, refCount, vecChunks, vecIndex>>
doing  == <<cur, pos, oldCounts, newCounts>>
work   == <<kind, vectors, todo, gone, prepared, embeds>>
vars   == <<tables, saved, pc, work, doing>>

-----------------------------------------------------------------------------
(* Helpers *)

RefsTo(id, rs) == {r \in rs : r.shared = id}

\* load_shared_ref_counts_for_rel_path
CountsOf(p) ==
  [id \in Id |-> Cardinality({r \in RefsTo(id, refs) : r.file = p})]

Zero == [id \in Id |-> 0]

Keys(keyOf) == {keyOf[id] : id \in Id} \ {NoRow}

\* SQLite's choice of rowid: one more than the largest in use.
NextId(id) ==
  /\ id \in Id
  /\ \A other \in Id : sharedKey[other] # NoRow => other < id
  /\ id - 1 \in {0} \cup {other \in Id : sharedKey[other] # NoRow}

IdOf(key) == CHOOSE id \in Id : sharedKey[id] = key

Pending == {p \in Path : todo[p] # NoDoc}

View ==
  [files |-> files, refs |-> refs, fts |-> fts, sharedKey |-> sharedKey,
   refCount |-> refCount, vecChunks |-> vecChunks, vecIndex |-> vecIndex]

Empty == [id \in Id |-> NoRow]

-----------------------------------------------------------------------------
Init ==
  /\ files = {} /\ refs = {} /\ fts = {}
  /\ sharedKey = Empty /\ refCount = Zero
  /\ vecChunks = Empty /\ vecIndex = Empty
  /\ saved = View
  /\ pc = "idle" /\ kind = "reconcile" /\ vectors = FALSE
  /\ todo = [p \in Path |-> NoDoc] /\ gone = {} /\ prepared = {}
  /\ embeds = [key \in Key |-> 0]
  /\ cur = NoDoc /\ pos = 1 /\ oldCounts = Zero /\ newCounts = Zero

\* Mutation of Prepare: embeds every text of the batch, known or not.
PrepareAll(batch, v, keyOf) ==
  /\ prepared' = IF v
                 THEN UNION {KeysOf(batch[p]) : p \in {q \in Path : batch[q] # NoDoc}}
                 ELSE {}
  /\ embeds' = [key \in Key |-> IF key \in prepared' THEN 1 ELSE 0]

\* prepare_missing_shared_chunk_vectors: one embedder call for the distinct
\* texts of the batch that have no shared_chunks row yet.
Prepare(batch, v, keyOf) ==
  /\ prepared' = IF v
                 THEN (UNION {KeysOf(batch[p]) : p \in {q \in Path : batch[q] # NoDoc}})
                        \ Keys(keyOf)
                 ELSE {}
  /\ embeds' = [key \in Key |-> IF key \in prepared' THEN 1 ELSE 0]

\* reconcile_scope_for_root's transaction opens; it is skipped when there is
\* neither an upsert nor a delete (a state-only write touches no table here).
BeginReconcile(batch, drop, v) ==
  /\ pc = "idle"
  /\ \A p \in drop : batch[p] = NoDoc
  /\ drop # {} \/ \E p \in Path : batch[p] # NoDoc
  /\ pc' = "open" /\ kind' = "reconcile" /\ vectors' = v
  /\ todo' = batch /\ gone' = drop
  /\ Prepare(batch, v, sharedKey)
  /\ UNCHANGED <<tables, saved, doing>>

\* Mutation of BeginRebuild: forgets DELETE FROM vec_index and vec_chunks.
BeginRebuildKeepingVectors(batch, v) ==
  /\ pc = "idle"
  /\ pc' = "open" /\ kind' = "rebuild" /\ vectors' = v
  /\ todo' = batch /\ gone' = {}
  /\ files' = {} /\ refs' = {} /\ fts' = {}
  /\ sharedKey' = Empty /\ refCount' = Zero
  /\ Prepare(batch, v, Empty)
  /\ UNCHANGED <<vecChunks, vecIndex, saved, doing>>

\* rebuild_index_with_level's transaction opens: six DELETEs, then prepare.
BeginRebuild(batch, v) ==
  /\ pc = "idle"
  /\ pc' = "open" /\ kind' = "rebuild" /\ vectors' = v
  /\ todo' = batch /\ gone' = {}
  /\ files' = {} /\ refs' = {} /\ fts' = {}
  /\ sharedKey' = Empty /\ refCount' = Zero
  /\ vecChunks' = Empty /\ vecIndex' = Empty
  /\ Prepare(batch, v, Empty)
  /\ UNCHANGED <<saved, doing>>

\* Mutation of DeleteFileRows: leaves the FTS rows to the foreign key.
DeleteFileRowsKeepingFts(p) ==
  /\ refs' = {r \in refs : r.file # p}
  /\ fts' = fts

\* delete_file_rows_by_rel_path
DeleteFileRows(p) ==
  /\ refs' = {r \in refs : r.file # p}
  /\ fts' = {row \in fts : row.file # p}

\* Mutation of OpenDocument: collects the texts only the old version used at
\* once, before the new version is resolved.
OpenDocumentCollecting(p) ==
  LET freed == {id \in Id : RefsTo(id, refs) # {} /\ \A r \in RefsTo(id, refs) : r.file = p}
      Cleared(table) == [id \in Id |-> IF id \in freed THEN NoRow ELSE table[id]]
  IN
  /\ pc = "open" /\ p \in Pending
  /\ pc' = "doc" /\ cur' = p /\ pos' = 1
  /\ oldCounts' = CountsOf(p) /\ newCounts' = Zero
  /\ DeleteFileRows(p)
  /\ files' = files \cup {p}
  /\ sharedKey' = Cleared(sharedKey)
  /\ vecChunks' = Cleared(vecChunks) /\ vecIndex' = Cleared(vecIndex)
  /\ UNCHANGED <<refCount, saved, work>>

\* upsert_document, first part: remember the old counts, drop the old rows,
\* insert the new files row.
OpenDocument(p) ==
  /\ pc = "open" /\ p \in Pending
  /\ pc' = "doc" /\ cur' = p /\ pos' = 1
  /\ oldCounts' = CountsOf(p) /\ newCounts' = Zero
  /\ DeleteFileRows(p)
  /\ files' = files \cup {p}
  /\ UNCHANGED <<sharedKey, refCount, vecChunks, vecIndex, saved, work>>

Unresolved ==
  {i \in DOMAIN todo[cur] : todo[cur][i] \notin Keys(sharedKey)}

\* resolve_shared_chunk_ids, one missing text: a new row with count 0 and, if
\* vectors are enabled, both of its vector rows.  A text nobody prepared is
\* embedded on the spot.
ResolveKey(i, id) ==
  LET key == todo[cur][i] IN
  /\ pc = "doc"
  /\ i \in Unresolved /\ \A j \in Unresolved : i <= j
  /\ NextId(id)
  /\ sharedKey' = [sharedKey EXCEPT ![id] = key]
  /\ refCount' = [refCount EXCEPT ![id] = 0]
  /\ vecChunks' = IF vectors THEN [vecChunks EXCEPT ![id] = key] ELSE vecChunks
  /\ vecIndex' = IF vectors THEN [vecIndex EXCEPT ![id] = key] ELSE vecIndex
  /\ embeds' = IF vectors /\ key \notin prepared
               THEN [embeds EXCEPT ![key] = @ + 1] ELSE embeds
  /\ UNCHANGED <<files, refs, fts, saved, pc, doing,
                 kind, vectors, todo, gone, prepared>>

\* Mutation of InsertChunk: numbers the chunks after counting them.
InsertChunkNumberedLate ==
  LET key == todo[cur][pos]
      id  == IdOf(key)
  IN
  /\ pc = "doc" /\ Unresolved = {} /\ pos \in DOMAIN todo[cur]
  /\ refs' = refs \cup {[file |-> cur, index |-> pos + 1, shared |-> id]}
  /\ fts' = fts \cup {[file |-> cur, index |-> pos + 1, text |-> key]}
  /\ newCounts' = [newCounts EXCEPT ![id] = @ + 1]
  /\ pos' = pos + 1
  /\ UNCHANGED <<files, sharedKey, refCount, vecChunks, vecIndex, saved, pc,
                 work, cur, oldCounts>>

\* upsert_document, one round of its loop: a chunk_refs row, its FTS row, and
\* the running count.
InsertChunk ==
  LET key == todo[cur][pos]
      id  == IdOf(key)
  IN
  /\ pc = "doc" /\ Unresolved = {} /\ pos \in DOMAIN todo[cur]
  /\ refs' = refs \cup {[file |-> cur, index |-> pos, shared |-> id]}
  /\ fts' = fts \cup {[file |-> cur, index |-> pos, text |-> key]}
  /\ newCounts' = [newCounts EXCEPT ![id] = @ + 1]
  /\ pos' = pos + 1
  /\ UNCHANGED <<files, sharedKey, refCount, vecChunks, vecIndex, saved, pc,
                 work, cur, oldCounts>>

\* Mutation of WithDeltas: adds the new references without the old ones.
WithDeltasAddingOnly(old, new) ==
  [id \in Id |-> IF sharedKey[id] = NoRow THEN refCount[id] ELSE refCount[id] + new[id]]

\* apply_shared_ref_count_deltas: UPDATE by rowid, so rows that are gone are
\* not touched.
WithDeltas(old, new) ==
  [id \in Id |-> IF sharedKey[id] = NoRow THEN refCount[id]
                 ELSE refCount[id] + new[id] - old[id]]

\* upsert_document, last part.
CloseDocument ==
  /\ pc = "doc" /\ Unresolved = {} /\ pos \notin DOMAIN todo[cur]
  /\ refCount' = WithDeltas(oldCounts, newCounts)
  /\ todo' = [todo EXCEPT ![cur] = NoDoc]
  /\ pc' = "open" /\ cur' = NoDoc /\ pos' = 1
  /\ oldCounts' = Zero /\ newCounts' = Zero
  /\ UNCHANGED <<files, refs, fts, sharedKey, vecChunks, vecIndex, saved,
                 kind, vectors, gone, prepared, embeds>>

\* delete_by_rel_path, after the last upsert.  Deleting a path without a row
\* (a new file that could not be loaded) changes nothing.
DropDocument(p) ==
  /\ pc = "open" /\ Pending = {} /\ p \in gone
  /\ refCount' = WithDeltas(CountsOf(p), Zero)
  /\ DeleteFileRows(p)
  /\ files' = files \ {p}
  /\ gone' = gone \ {p}
  /\ UNCHANGED <<sharedKey, vecChunks, vecIndex, saved, pc, doing,
                 kind, vectors, todo, prepared, embeds>>

\* Mutation of Unreferenced: goes by ref_count, off by one.
UnreferencedByCount == {id \in Id : sharedKey[id] # NoRow /\ refCount[id] <= 1}

\* gc_unreferenced_shared_chunks: last statement of a reconcile, never run by
\* a rebuild.  It goes by the references, not by ref_count.
Unreferenced == {id \in Id : sharedKey[id] # NoRow /\ RefsTo(id, refs) = {}}

\* Mutation of Collect: forgets DELETE FROM vec_index.
CollectKeepingIndex ==
  /\ pc = "open" /\ Pending = {} /\ gone = {} /\ kind = "reconcile"
  /\ vecChunks' = [id \in Id |-> IF id \in Unreferenced THEN NoRow ELSE vecChunks[id]]
  /\ sharedKey' = [id \in Id |-> IF id \in Unreferenced THEN NoRow ELSE sharedKey[id]]
  /\ refCount' = [id \in Id |-> IF id \in Unreferenced THEN 0 ELSE refCount[id]]
  /\ pc' = "collected"
  /\ UNCHANGED <<files, refs, fts, vecIndex, saved, work, doing>>

Collect ==
  /\ pc = "open" /\ Pending = {} /\ gone = {} /\ kind = "reconcile"
  /\ vecIndex' = [id \in Id |-> IF id \in Unreferenced THEN NoRow ELSE vecIndex[id]]
  /\ vecChunks' = [id \in Id |-> IF id \in Unreferenced THEN NoRow ELSE vecChunks[id]]
  /\ sharedKey' = [id \in Id |-> IF id \in Unreferenced THEN NoRow ELSE sharedKey[id]]
  /\ refCount' = [id \in Id |-> IF id \in Unreferenced THEN 0 ELSE refCount[id]]
  /\ pc' = "collected"
  /\ UNCHANGED <<files, refs, fts, saved, work, doing>>

EndTransaction ==
  /\ pc' = "idle" /\ kind' = "reconcile" /\ vectors' = FALSE
  /\ todo' = [p \in Path |-> NoDoc] /\ gone' = {} /\ prepared' = {}
  /\ embeds' = [key \in Key |-> 0]
  /\ cur' = NoDoc /\ pos' = 1 /\ oldCounts' = Zero /\ newCounts' = Zero

\* Mutation of Commit: a reconcile may commit without collecting.
CommitUncollected ==
  /\ pc \in {"open", "collected"} /\ Pending = {} /\ gone = {}
  /\ saved' = View
  /\ EndTransaction
  /\ UNCHANGED tables

Commit ==
  /\ \/ pc = "collected"
     \/ pc = "open" /\ kind = "rebuild" /\ Pending = {}
  /\ saved' = View
  /\ EndTransaction
  /\ UNCHANGED tables

\* The process dies, the embedder fails, a statement errors, COMMIT is busy:
\* the transaction is dropped and the tables are what they were.
Rollback ==
  /\ pc # "idle"
  /\ files' = saved.files /\ refs' = saved.refs /\ fts' = saved.fts
  /\ sharedKey' = saved.sharedKey /\ refCount' = saved.refCount
  /\ vecChunks' = saved.vecChunks /\ vecIndex' = saved.vecIndex
  /\ EndTransaction
  /\ UNCHANGED saved

Next ==
  \/ \E batch \in [Path -> Doc \cup {NoDoc}], v \in BOOLEAN :
       \/ \E drop \in SUBSET Path : BeginReconcile(batch, drop, v)
       \/ BeginRebuild(batch, v)
  \/ \E p \in Path : OpenDocument(p) \/ DropDocument(p)
  \/ \E i \in 1..MaxChunks, id \in Id : ResolveKey(i, id)
  \/ InsertChunk
  \/ CloseDocument
  \/ Collect
  \/ Commit
  \/ Rollback

Spec == Init /\ [][Next]_vars

-----------------------------------------------------------------------------
(* Properties *)

TableTypes(t) ==
  /\ t.files \in SUBSET Path
  /\ t.refs \in SUBSET ChunkRef
  /\ t.fts \in SUBSET FtsRow
  /\ t.sharedKey \in [Id -> Key \cup {NoRow}]
  /\ t.refCount \in [Id -> Int]
  /\ t.vecChunks \in [Id -> Key \cup {NoRow}]
  /\ t.vecIndex \in [Id -> Key \cup {NoRow}]

\* Every variable holds a value of its table's or local's type (the schema in
\* create_schema, db.rs, and the locals of upsert_document).
TypeOK ==
  /\ TableTypes(View)
  /\ saved = [files |-> saved.files, refs |-> saved.refs, fts |-> saved.fts,
              sharedKey |-> saved.sharedKey, refCount |-> saved.refCount,
              vecChunks |-> saved.vecChunks, vecIndex |-> saved.vecIndex]
  /\ TableTypes(saved)
  /\ pc \in {"idle", "open", "doc", "collected"}
  /\ kind \in {"reconcile", "rebuild"}
  /\ vectors \in BOOLEAN
  /\ todo \in [Path -> Doc \cup {NoDoc}]
  /\ gone \in SUBSET Path
  /\ prepared \in SUBSET Key
  /\ embeds \in [Key -> Nat]
  /\ cur \in Path \cup {NoDoc}
  /\ pos \in Nat \ {0}
  /\ oldCounts \in [Id -> Nat]
  /\ newCounts \in [Id -> Nat]

\* ref_count is maintained by deltas that upsert_document and
\* delete_by_rel_path compute from counts read earlier in the transaction;
\* outside the middle of one document it equals the number of chunk_refs rows.
RefCountExact ==
  pc # "doc" => \A id \in Id : refCount[id] = Cardinality(RefsTo(id, refs))

\* A text has one shared_chunks row, every chunk reference points to a live
\* one, and belongs to a file that has a row (the foreign keys of the schema
\* are never what stops a writer).
SharedRowsSound ==
  /\ \A i, j \in Id : sharedKey[i] # NoRow /\ sharedKey[i] = sharedKey[j] => i = j
  /\ \A r \in refs : sharedKey[r.shared] # NoRow /\ r.file \in files

\* fts_chunks mirrors chunk_refs row for row, with the referenced text: a
\* search never matches words of a version that was replaced or deleted.
FtsMirrorsRefs ==
  fts = {[file |-> r.file, index |-> r.index, text |-> sharedKey[r.shared]] : r \in refs}

\* Both vector tables agree, and a rowid that SQLite reuses never inherits
\* the vector of the text that had the number before.
VectorsOwnText ==
  \A id \in Id : /\ vecIndex[id] = vecChunks[id]
                 /\ vecIndex[id] # NoRow => vecIndex[id] = sharedKey[id]

\* Deferred collection leaves nothing behind: in a committed index every
\* shared text is used by a chunk, and every files row has chunks.
NoOrphans ==
  /\ \A id \in Id : saved.sharedKey[id] # NoRow => RefsTo(id, saved.refs) # {}
  /\ \A p \in saved.files : \E r \in saved.refs : r.file = p

\* A text costs at most one embedder call per transaction, and none when the
\* index already has a row for it (the reason for preparing inside the lock).
EmbedsOnce ==
  \A key \in Key : /\ embeds[key] <= 1
                   /\ embeds[key] = 1 /\ kind = "reconcile" => key \notin Keys(saved.sharedKey)

\* A text that is used before and after a reconcile keeps its row and its
\* vectors, even when the only document that had it drops it and another one
\* of the same batch takes it up (a rename or a moved paragraph).
KeepsSharedRows ==
  [][(pc = "collected" /\ pc' = "idle" /\ saved' = View) =>
       \A id \in Id :
         saved.sharedKey[id] # NoRow /\ saved.sharedKey[id] \in Keys(sharedKey) =>
           /\ sharedKey[id] = saved.sharedKey[id]
           /\ vecIndex[id] = saved.vecIndex[id]]_vars

-----------------------------------------------------------------------------
(* The tables implement the promise of DocIndex: read the committed chunk    *)
(* references back as documents, and the vector rows as embedded texts.      *)

DocAt(p) ==
  LET mine == {r \in saved.refs : r.file = p} IN
  IF p \notin saved.files THEN NoDoc
  ELSE [i \in {r.index : r \in mine} |->
          saved.sharedKey[(CHOOSE r \in mine : r.index = i).shared]]

Index == INSTANCE DocIndex WITH
           docs <- [p \in Path |-> DocAt(p)],
           embedded <- Keys(saved.vecIndex)

\* Every commit is one atomic Reconcile or Rebuild of DocIndex; no other step
\* is visible.
ImplementsDocIndex == Index!Spec
=============================================================================
