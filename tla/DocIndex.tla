------------------------------ MODULE DocIndex ------------------------------
(***************************************************************************)
(* What a .zg root promises its readers, with every table folded away: a   *)
(* map from relative path to the document last indexed there, and the set  *)
(* of shared texts that have an embedding.  A writer changes both in one   *)
(* step, because src/src/index/sync.rs does all of its row work inside one *)
(* BEGIN IMMEDIATE transaction.                                            *)
(*                                                                         *)
(* ChunkStore (the tables) is shown to implement this module; ZgSync (the  *)
(* processes) uses its operators as the effect of a committed transaction. *)
(***************************************************************************)
CONSTANTS
  Path,        \* relative paths that may be indexed under the root
  Key,         \* shared texts: the (hash, normalized text) keys of chunks
  Doc,         \* documents a loader can produce
  NoDoc,       \* a path without a row in `files`
  KeysOf(_)    \* the shared texts a document is chunked into

VARIABLES
  docs,        \* what each path is indexed as
  embedded     \* shared texts that own a vector

vars == <<docs, embedded>>

\* A batch of work: what each path is to become.  Paths outside the batch's
\* own domain are left alone.
Batch == UNION {[S -> Doc \cup {NoDoc}] : S \in SUBSET Path}

Applied(d, batch) ==
  [p \in Path |-> IF p \in DOMAIN batch THEN batch[p] ELSE d[p]]

Used(d) == UNION {KeysOf(d[p]) : p \in {q \in Path : d[q] # NoDoc}}

\* Vectors survive exactly as long as a document uses their text.  A writer
\* with vectors enabled embeds the texts that are new to the root; texts that
\* were already there keep what they had, a vector or none.
EmbeddedAfter(before, after, had, vectors) ==
  (had \cap Used(after))
    \cup (IF vectors THEN Used(after) \ Used(before) ELSE {})

-----------------------------------------------------------------------------
Init ==
  /\ docs = [p \in Path |-> NoDoc]
  /\ embedded = {}

\* A reconcile replaces and deletes the documents of its batch.
Reconcile(batch, vectors) ==
  /\ docs' = Applied(docs, batch)
  /\ embedded' = EmbeddedAfter(docs, docs', embedded, vectors)

\* A rebuild empties the tables first, so it keeps nothing.
Rebuild(all, vectors) ==
  /\ docs' = all
  /\ embedded' = IF vectors THEN Used(all) ELSE {}

Next ==
  \E vectors \in BOOLEAN :
    \/ \E batch \in Batch : Reconcile(batch, vectors)
    \/ \E all \in [Path -> Doc \cup {NoDoc}] : Rebuild(all, vectors)

Spec == Init /\ [][Next]_vars
=============================================================================
