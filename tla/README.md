# zettagrep in TLA+

`zg` is a local search tool: a directory gets a `.zg/index.db` (SQLite: files,
chunks, full-text rows, vectors), and every search first reconciles the part of
that index it is about to query with what is on disk. There is no daemon. All
concurrency is between short-lived processes that share one SQLite file, and
all failures are processes that die, file-system calls that fail, and locks
that cannot be had.

This directory holds TLA+ modules translated from the Rust source, TLC
configurations that check them, and TLAPS proofs. Paths such as
`src/src/index/db.rs` are relative to the directory that holds `tla/` and `src/`.

| module | models | checked by |
|---|---|---|
| `DocIndex` | what an index promises: a map path -> document, a set of embedded texts, atomic batches | (the abstract specification of the two below) |
| `ChunkStore` | every row operation of a write transaction | `MCChunkStore.cfg`, `ChunkStore_proofs` |
| `ZgSync` | several processes that reconcile, rebuild and query one root while files change | `Sync_*.cfg`, `ZgSync_proofs` |
| `WriterLock` | the retry loop around every write transaction, in time | `Writer.cfg`, `WriterLock_proofs` |
| `RootLifecycle` | init, rebuild, delete, status, search and mark_dirty on one `.zg`, statement by statement | `Lifecycle.cfg`, `RootLifecycle_proofs` |
| `RootCover` | a search under nested roots, and what becomes of an error in one of them | `Cover.cfg`, `RootCover_proofs` |
| `DocumentLoader` | the walk, the parallel loader and the chunk gates of `init` and of a search without index | `Loading.cfg`, `DocumentLoader_proofs` |
| `TextChunks`, `CodeSymbols` (with `Positions`) | what a text, or the syntax tree of a program, becomes in the index | `Loading.cfg`, through `DocumentLoader`; `Chunkers_proofs` |
| `SearchSession` | the statements of one query, its merge, snippets and limits, while files and index change | `Search*.cfg`, `SearchSession_proofs` |

`MCX` instantiates `X` for TLC. Definitions marked `Mutation of` are plausible bugs
that the properties are shown to catch; no action of the models uses them.

## 1. The system

**Index tables** (`index/db.rs`). State: `files`, `chunk_refs`, `fts_chunks`,
`shared_chunks` (a text once, with `ref_count`), `vec_chunks` and `vec_index` (its
vector, by the same rowid), `settings`, `state`, `index_runs`. Operations:
`prepare_missing_shared_chunk_vectors`, `upsert_document`, `delete_by_rel_path`,
`gc_unreferenced_shared_chunks`, all inside `with_write_transaction_retry`.
Correct when `ref_count` equals the references, nothing dangles, the FTS rows
mirror the references, vectors belong to the text that owns the rowid, and a
text is embedded once. Hard: `ref_count` is kept by deltas from counts read
before rows are deleted; SQLite reuses the rowids that collection frees; a
transaction may end after any statement.

**Reconcile and rebuild** (`index/sync.rs`). `reconcile_scope_for_root` reads
rows, level and dirty flag, walks, compares stamps (size and modification time),
loads what changed, and only then takes the writer lock and applies upserts and
deletes. `rebuild_index_with_level` writes the settings by autocommit, loads
everything, and replaces everything in one transaction. Correct when a search's
scope is right when it is queried, other scopes are not touched, the level of a
root changes only on request, and once the files stop changing the index
becomes what is on disk. Hard: everything is decided from reads made before the
lock.

**Root lifecycle** (`index/sync.rs`, schema part of `db.rs`, `paths.rs`). State:
the directory, the file, which tables exist, schema version, level, dirty flag.
Operations: `init_index_with_level`, `rebuild_index_with_level` up to its
transaction, `delete_index`, `load_status`, `mark_dirty`, `validate_schema`.
Correct when interrupted commands can always be repaired by a rebuild, an
index of an older schema is never searched, and a failed search leaves the root
marked dirty. Hard: `create_schema`, `reset_schema` and `seed_defaults` are
series of autocommit statements.

**Writer lock** (`with_write_transaction_retry` in `index/db.rs`). One writer per
root; a process that finds the lock taken polls for 3 s, sleeps, and tries again
for 900 s in all. Correct when the writes of a call are applied once if it
succeeds and not at all if it fails, and when a process waits its whole budget
and no longer. Hard: embedding happens under the lock and may outlast the
budget of the others, and the whole body runs again after a commit refused as
busy.

**File collection and loading** (`index/files.rs`, `walk.rs`). Stateless. The walk
checks each entry, then up to three threads load consecutive batches of the paths;
results are put back in input order. Text becomes one chunk per line or part of
a line, then short neighbours are merged. The same load, without writing, is the
estimate that `init` and a search without index decide on. Correct when the
result does not depend on the threads, errors included, and when the estimate
counts what indexing counts. Hard: files change between walk, stat, metadata
and body; one thread fails while others read.

**Code symbols** (`index/code_symbols.rs`). A pure function from a syntax tree to
chunks: which nodes are symbols, their names and containers, their doc texts, and
the identifiers that speak for them. Hard: nested symbols, where each
identifier must belong to the innermost one only.

**Path and scope helpers** (`index/util.rs`, `paths.rs`). Scope to SQL pattern,
relative paths, the nearest and the covering roots. A search reconciles every
root above its scope, nearest first, and queries the nearest. Correct when what
the nearest root answers is current and the roots above it cannot spoil that.
Hard: other commands create and delete `.zg` directories meanwhile, and
`run_search` and `reconcile_covering_roots` look for the roots one after the other.

**Indexed query and ranking** (`index/hybrid.rs`). Several SELECTs per query,
without a read transaction, one run of `rg`, a merge by rowid, snippets read from
the live files, three limits. No state but the query's locals. Correct when an
undisturbed search finds exactly what matches, labelled with all that found it;
when vectors never push text hits out; and when a hit shows text that was
there. Hard: the statements see different commits, and rowids are reused.

**Query routing and ripgrep backend** (`search/`). Is the query a regex; the
argument list for `rg`; parsing of its output.

**Embedding** (`index/embed.rs`), **command line and messages** (`main.rs`, `messages.rs`, `lib.rs`), **developer
probes** (`dev.rs`, `index/dev.rs`).

Interactions: `main` -> `sync` -> `files` (disk) and `db` (SQLite) -> `embed`
(called inside the transaction, while the lock is held). Processes meet only in
SQLite (WAL, one writer, `busy_timeout` 3 s, an explicit retry of 900 s around
`BEGIN IMMEDIATE`) and in the file system. `PROJECT.json` lists the components
with their status, and the hazards, each at its line.

## 2. The modules and the code

### DocIndex and ChunkStore

`DocIndex` has one variable for the documents and one for the embedded texts,
and two atomic actions, `Reconcile(batch, vectors)` and `Rebuild(all, vectors)`.
Its `EmbeddedAfter` says what the tables really promise of vectors: a text keeps
what it had as long as some document uses it, and only *new* texts are embedded.

`ChunkStore` is the writer inside its transaction. An action stands for the
statements the code always runs together:

| action | code |
|---|---|
| `BeginReconcile`, `BeginRebuild` | transaction opens (a rebuild deletes all rows first) and the missing texts are embedded |
| `OpenDocument` | `upsert_document`: old counts read, old rows deleted, `files` row written |
| `ResolveKey` | `resolve_shared_chunk_ids`: one missing text gets a row, and its vector |
| `InsertChunk` | one `chunk_refs` row and one FTS row |
| `CloseDocument` | `apply_shared_ref_count_deltas` |
| `DropDocument` | `delete_by_rel_path` |
| `Collect`, `Commit`, `Rollback` | `gc_unreferenced_shared_chunks`; commit; any error, the embedder's too, or a crash |

`saved` is the committed view, and what `Rollback` returns to. Abstractions: chunk
references and FTS rows are identified by (file, chunk index) instead of their
rowids, since only `shared_chunks` rowids are used as foreign keys to vectors;
a chunk's lexical text is identified with its shared text (so for text chunks;
symbol chunks add a header to the lexical form); hashes are taken to be
injective; `index_runs`, `last_used_unix_ms`, line numbers and snippets are left
out because no decision of the code reads them.

### ZgSync

Every process has a program counter and the local variables of
`reconcile_scope_for_root`: `rows` (`existing`), `known` (`index_level`),
`wasDirty`, and `plan`, which folds `candidate_files`, `seen`, `pending_loads`,
`pending_upserts` and `pending_deletes` into what has been found out about each
path. The steps are `ReadRows`, `ReadSettings`, `Walk`, then one `Stat` per file,
then `LoadMeta` and `LoadBody` per file (in any order: the loader is parallel),
`Decide`, `Lock`, `Commit`, `Query`. A rebuild is `StartRebuild`, `SeedDefaults`,
`SetLevel`, `LoadLevel`, `WalkAll`, the same loads, `Lock` and `Commit`. `Commit`
is `DocIndex`'s atomic step. The user edits and removes files at any time.

Failure paths: a file that vanished (`FileGone`), a lock that could not be had
for 900 s (`GiveUp`), settings that could not be written within 3 s (`Busy`), a
transaction that fails (`RollBack`), a killed process (`Crash`), and the
`mark_dirty` of a failed search, which itself gives up in silence when the lock
is held.

Abstractions: a document is its stamp and one text; every edit changes the stamp
(edits within a millisecond that keep the size are outside what zg can notice);
the two adjacent SELECTs for level and dirty flag are one step, and so are the
metadata and content check of one round of the stamp loop; `dirty_reason` is
left out (whenever it differs while the flag does not, the same reconcile has a
skipped file to delete, and writes anyway); the retry loop's waiting is the
disabledness of `Lock` (WriterLock has it step by step). Content is a text, `Binary` (not white-listed: the
candidate check refuses it) or `Blank` (accepted by the check, refused by the
loader, which is how a file comes to be "skipped").

### RootLifecycle

The nine tables are three, in the order `reset_schema` drops them; `rows`
records only which zg wrote the documents (nobody, an older one, this one).
Every autocommit statement and every file-system call is a step; the
transactions of rebuild and reconcile are one step each. A connection to a file
that was unlinked by `delete` lives on without effect (`Orphaned`). `Replace` may
fail on tables an older zg created with other columns, a reconcile on a file that is gone, the
embedder or the lock, and the final query on rg or the embedder ("no answer"; a query's
errors are printed and mark nothing). `state.json` is written
and never read by a decision, so it is left out here (RootCover has it). The validation and the SELECTs
of the final query are one step; what several SELECTs may see is the subject of
`SearchSession`. `alone`, `goal` and `stamped` are history variables.

### WriterLock

Each process is at a place of the loop: `Call`, then `Begin` (BEGIN IMMEDIATE gets
the lock) or `Queue` (it polls, for the busy timeout) and `Refused`; then `Sleep`
for the delay of `retry_delay`, or `GiveUp`, and `Wake`. Inside the transaction:
`Commit`, `Busy` (a statement or the commit is refused as busy: rolled back, the
whole body runs again), `BodyFails` (any other error), and `Kill` anywhere.
`pending` counts how often the body's writes are in the open transaction, `applied`
how often they were committed.

`Tick` is the passing of time. A unit is one in which SQLite polls at least
once; what is due (an attempt, a timer that has run out) happens before the next
tick, which takes a scheduler without delays of its own. Only durations are
kept, and the clocks stop at `Horizon`, beyond any value a call can reach, so that
processes may call for ever. `Backoff` is a constant function; `Schedule` is the
code's (200 ms doubled, at most 5 s). `MaxHold` bounds a transaction and
`MaxFaults` the refused, failed and killed ones.

### RootCover

The directories from the top to the deepest scope are a chain, each with one file
and, perhaps, an index that is missing, invalid or valid. A search is `Ask`,
`Require` (`find_index_root` from the scope upwards) or `Refuse`, `Cover`
(`covering_index_roots`), then for each root `Sync`, `SyncRefused` (no valid index)
or `SyncFails`, after a failure `Mark`, `MarkUnheard` or `MarkFails` (the three ends
of `mark_dirty`: both places marked, only `state.json`, neither), and `Query`. The
error policy is `AfterMark`: the error of index 0 is returned, others are only
recorded. The list of roots is a set, `todo`, that is gone through from the nearest
up (`Current`), as the loop does. Steps of other commands are `MakeDir`, `OpenDb`, `Stamp`, `Rebuild`,
`Snapshot` (`state.json` is written apart from the transaction), `Unlink` and
`RemoveDir`; `Edit` changes a file.

Abstractions: a reconcile is one step and always sees the disk as it is (ZgSync
has the rest); the vector level plays no part; a file is indexable text, a blank
file (it passes the candidate check, has no chunk, and makes the root dirty) or
anything else; sibling directories are left to ZgSync. `failed`, `lost`,
`calm` and `still` are history variables.

### DocumentLoader, TextChunks and CodeSymbols

`DocumentLoader` is `init` (with and without `--force`) and a search outside every
index, up to the write transaction. `Look` handles one directory entry of the walk,
`Spawn` cuts the paths into batches (`resolve_index_parallelism`, ceil division),
`Read` is one file in one worker thread, `Join` the main thread taking the
results of the next worker, `Leave` the end of `thread::scope` after an error.
`Estimate` and `Rebuild` use what was loaded. The user rewrites and removes files
at any step (`Change`). A panic of a thread, and a stack exhausted by a deeply
nested program, are not modelled.

`TextChunks` has a text as lines of segments (a segment is what is between two
` :: `), which are blank, short or long: that is all `build_chunks` and
`merge_short_text_chunks` ask of them. `CodeSymbols` has a syntax tree as the
sequence of its nodes in visiting order with parent, kind, field, rows and word;
tree-sitter is external. It translates which nodes are symbols in each language,
with name, container, doc text, rows and identifier terms, and the identifier
splitter character by character over a small alphabet, since there the conversion
is what matters. JavaScript, TypeScript and TSX are one language (they differ in
parser and label); the wording of the lexical text is left out. A file of any
other kind is a text. Recursive descents are conditions on the nodes between two
others. Loops are recursive functions over the sequence; a loop that picks some of its
places, in order, is `Ascending` of the set of those places (`Positions`), which the
proofs can read.

`DocumentLoader` extends both and chunks each body once (`ChunksOf`).

### SearchSession

The query begins where ZgSync's `Query` is one step: `ReadLevel`, `ReadLexical`,
`Grep` for each file, `Lookup` for each line rg found, `ReadVector`, `ReadLive` for
each file, `ShowPage`. Between any two of them the user edits (`Edit`), a reconcile
brings a path up to date (`Reindex`), or a rebuild commits (`Rebuild`). `Merged`,
`Kept`, `Snippet`, `Priority` and `Pages` translate `merge_ranked_hits`,
`materialize_live_snippets`, `source_priority` and the two limits.

Abstractions: a line is one chunk, so chunks do not overlap, and the lines
`Outside` are those of a code file that belong to no symbol (of a code file only
symbols are stored). Which lines a channel finds is a constant. RRF and lexical
scores only order hits of equal `source_priority`; that order, and so the choice
at each limit, is left open, as are rg's order and the neighbours that `-C` adds.
A commit of several paths is several of one path, one that commits what it
loaded before the last edit is left to ZgSync, and a rebuild's level changes
with its rows (RootLifecycle has them apart). `quiet`, `overtaken` and `shown` are
history variables.

## 3. What is checked

### Runs that pass

* **chunk_store** (`MCChunkStore.cfg`, 423 621 states). Two paths, two texts,
  documents of one or two chunks, three rowids. Two texts and three rowids are
  the least in which a number is freed and handed to another text; two paths
  the least in which a text moves from one document to another in a batch;
  two chunks the least in which a document references a text twice. Checks
  `RefCountExact`, `SharedRowsSound`, `FtsMirrorsRefs`, `VectorsOwnText`,
  `NoOrphans`, `EmbedsOnce`, `KeepsSharedRows`, and `ImplementsDocIndex`: read
  back as documents, the committed tables change exactly as `DocIndex` says.
* **sync_two** (2.8 M states). Two processes, two sibling directories and the
  whole root as scopes, two edits, locks that cannot be had.
  `StampFaithful` (what the stamp comparison trusts is right),
  `NoDuplicateEmbedding`, `VectorsComplete`, `ScopedReconcile`.
* **sync_one**. One process, every command: then a search really is a
  `SyncBoundary`, also after crashes of rebuilds and failed transactions.
* **sync_converges**. Liveness with a searching and rebuilding pair of processes
  and two edits: `Converges`, eventually the index is what is on disk, for good.
* **lifecycle** (1.9 M states). Two processes, all five commands, from nothing,
  from an older index, from a good one; one process is killed at any statement.
  `RebuildRecovers`; `OldRowsNeverServedUnstamped`; `FailureIsMarked`: a search or
  status that nobody disturbs, on whatever earlier commands have left, comes to its
  query or its report over tables that validate, or leaves the root marked dirty. It
  speaks of every way the two can end, so an error path that marks nothing breaks it; only
  the errors of the query itself, when the index is in order, are exempt.
* **writer** (637 440 states). Two processes call again and again; a budget of 5
  units, a busy timeout of 2, back-offs of 1, 2 and 3, transactions of up to 8,
  two faults. The longest transaction exceeds budget and timeout together, so that every
  way to give up happens; two doublings reach the cap of the back-off; the delay
  is both cut and not cut by what is left. `AppliedOnce`, `WaitBounded` (a
  process is without the lock for at most the budget and one busy timeout),
  `LastChance` (the end of a budget passes only while another holds the lock),
  `Ends` (every call returns).
* **cover** (3.8 M states). Three nested directories, any of them a root or not,
  scopes of a directory and of a file; one edit, two steps of other commands, two
  faults. `NearestIsCurrent` and `OuterRootsDoNotFail` under the condition that
  others leave the directories from the nearest root to the scope alone, not
  those above it; `CoveringRootsSettled` says that after an undisturbed search
  every covering root is right for the scope or marked dirty, in the index or,
  when that was locked, in `state.json`. Three directories are
  the least with a root that is neither first nor last; two steps make a root
  appear or vanish (directory and file) within one search.
* **loading** (96 743 states). Every text of up to three lines of seven sorts,
  programs in three languages with nested symbols, and directories of up to five
  files for one, two or three threads, with one edit. Five files on three threads give
  batches of unequal length; with limits of 1 and 2 chunks and a multiplier of 2
  every gate is met below, at and above its threshold. `InputOrder`,
  `FirstErrorWins`, `NoThreadLeftBehind`, `ForceGate`, `TextIsCovered` (the chunks
  of a text leave nothing out, repeat nothing, keep long pieces apart and name
  their lines; whether short pieces may be merged at all is a question of
  loading_marker), `SymbolsOwnTheirTerms`, and `Ends`. The run ends when the command does, hence
  no deadlock check.
* **search** (1.2 M states). Two files of at most two lines that are found by
  every combination of channels, both scopes, with and without `-C`, both levels;
  one edit and one rebuild, any number of reconciles. `QuietAnswer` (when nothing
  happens meanwhile, the answer is exactly what matches, with complete labels,
  up to the limits), `SemanticTail` (text first, then at most the fixed number
  of semantic hits, whatever happens meanwhile), `HitsTrue` (while others do not
  commit, every hit is a row of the index with text that its file held during the
  query; its full-text and vector labels are true of the row's text, and its literal
  label of the row's line in the file at some moment of the query). The labels speak of
  two things because the channels do: rg reads the files, so after an edit a row
  can carry the literal label without its stored text having the word. `HitsTrue` needs
  its condition: with a commit between two
  SELECTs the rowid of one chunk can come back as another's, and the merged hit
  carries the labels of both. The candidate limit of 3 lets every channel be
  complete in `QuietAnswer` and cut in the other states; two places on a page and
  one for the tail make both limits bite.

Two edits suffice for the races in ZgSync: one makes a process load a version,
the second makes that version stale. One crash suffices where a command
recovers from any state, since the recovery itself does not depend on how many
commands died before it. With two processes ZgSync is run without crashes: to the
other process a crash is a lock that is released with nothing committed, which
leaves the shared state of a search that never began; the crashes that matter,
between the autocommit statements of a rebuild, are in sync_one and lifecycle. Processes, texts and (with `NoneAlike`) paths are
interchangeable and declared symmetric, except in the liveness run. Deadlock is
checked everywhere but in loading.

Fairness of ZgSync (`FairSpec`): a running command goes on running (weak fairness of
`Search` and `Prelude` for each process: the code has no wait but the lock's, and
that ends), and users go on searching the whole root. Nothing is assumed of
edits, rebuilds, crashes and failing transactions. That somebody searches again
is an assumption about users; without it zg, which has no daemon, promises
nothing. WriterLock assumes that time passes (`Tick`), that a process with
something to do does it (`Go`), and that a transaction comes to an end (embedding
is finite work; `MaxHold` bounds it); not that a free lock goes to anyone in
particular. DocumentLoader assumes that the threads run (weak fairness of all
steps of zg together); nothing in it waits but for them.

### Runs that show a disagreement

Each checks one property that a document states and the code does not keep; the
counterexamples are short and `PROJECT.json` quotes the documents.

* **sync_boundary**: with two processes, the slower one commits an older version
  between the faster one's commit and its query. Documents are loaded before
  the lock and not checked again under it.
* **sync_scope**: the scope's `LIKE` pattern is not escaped; searching `a_b/`
  deletes the rows of `axb/` until that is searched again.
* **loading_marker**: pieces of fewer than 48 characters are merged with their short
  neighbours, across lines, blank lines and the marker, so that neither a line nor the
  hard marker ` :: ` bounds a chunk (`LinesAndMarkersSplit`). The code does it on
  purpose (it calls its mode "line+short-merge"); the documents do not say so.

### Other disagreements seen while modelling

No run states these; the modules contain the behaviour.

* A rebuild that switches to fts+vector and dies before its transaction leaves
  texts that no search ever embeds (`docs/r0_product_philosophy.md:38`). With two
  processes it takes neither a switch nor a crash: a search that reads the level
  while a `rebuild` without `--level` has the default in place commits texts
  without vectors. `VectorsComplete` is therefore checked where nobody rebuilds.
* Two rebuilds without `--level` at once can reset the level to the default, which is
  read, overwritten and restored in three statements
  (`docs/r0_product_philosophy.md:49`).
* `init` over an older index stamps the new schema version before the documents
  are replaced; killed in between, the old ones are served
  (`docs/r2_tech_decision_shared_chunk_embeddings.md:208`). Hence the condition
  `~stamped` in `OldRowsNeverServedUnstamped`.
* A dirty root is said to stay dirty until the user rebuilds it
  (`docs/r0_product_philosophy.md:74`). Any successful reconcile clears the flag, of
  a scope that has nothing to do with the failure, too: `CoveringRootsSettled` can
  promise the flag only for the scope just searched.
* A line of a code file that contains the query but belongs to no symbol is found by rg
  and then dropped, since no stored chunk covers it; literal hits are said to stay visible
  (`docs/r0_product_philosophy.md:24`). SearchSession has such lines (`Outside`), and
  `QuietAnswer` promises the literal hits of all others.
* rg exits with 2 when it could not read some file, and `run_rg` then drops every
  hit: one unreadable file makes each search of its scope fail, by regex or by index
  (`docs/r0_product_philosophy.md:88`). In SearchSession that is `End`.
* An outer root whose `.zg` disappears between its failure and `mark_dirty` fails the
  search of a nested root (`lost` in `OuterRootsDoNotFail`).
* `run_search` ignores the root that `reconcile_covering_roots` returns as active. If a
  nearer root is created between the two look-ups, that one is reconciled first
  and the older one is still queried; `calm` excludes it.
* Identifiers in a JavaScript class without a name are in no chunk's terms, and a
  Rust attribute or Python decorator line between a comment and its symbol
  separates the two.

Every property of a passing run has a mutant: a plausible bug in one
definition, written beside it (`... == \* Mutation of`), under which TLC finds the
property violated.

## 4. What is proved

### ChunkStore_proofs

For any finite set of paths, any texts and any bounds:

* `TypeCorrect`: `Spec => []TypeOK`;
* `RefCountsExact`: `Spec => []RefCountExact`.

Assumption: `ChunkStoreAssumption` (finitely many paths, at least one chunk per
document, two model values distinct from data).

`RefCountExact` is not inductive: in the middle of `upsert_document` the old
references are gone, some of the new ones are there, and `ref_count` is still the
count from before. `Balanced` states what holds all along, for each rowid

    ref_count + new - old = number of references

and that `new` counts what the current document has so far. The invariant `IInv`
is: the types, `Balanced` of the working tables (with zero counts outside a
document), `Balanced` of `saved` (so that a rollback re-establishes it), and
`Writing`, which ties `cur`, `pos` and the counts to the rows of the document being
written. Three lemmas on counting carry the steps: splitting the references to
a row by file (`CountSplit`), inserting one (`CountInsert`), and
counts are natural numbers. One lemma per action follows, and `NextIInv` puts
them together.

From the same assumption:

* `SharedRowsAreSound`, `FtsIsAMirror`, `VectorsAreOwn`, `NothingIsOrphaned`,
  `TextsAreEmbeddedOnce`: `Spec => []P` for `SharedRowsSound`, `FtsMirrorsRefs`,
  `VectorsOwnText`, `NoOrphans` and `EmbedsOnce`;
* `SharedRowsAreKept`: `Spec => KeepsSharedRows`, an action property;
* `ChunkStoreRefinesDocIndex`: `Spec => ImplementsDocIndex`, the refinement.

The invariant is `IInv /\ TInv`. `Linked` says how the rows hang together after every
statement; it is what four of the properties need, but no statement keeps it without
the rest. `Documents` says that only the document being written has gaps.
`Retained` is why freed rowids do no harm: until the collection nothing is removed, and
what is collected has no references, by `RefCountExact`. `Vectored` says which
vector each row has, `Prepared` that what is left to write was embedded up front
or has a row; `Rebuilding` is why a rebuild needs no collection (it writes every path
once, and a text without references is about to get one). `Committed` is the
part of all that which a rollback returns to. `ResolveKey`, the reuse of a rowid, is the
longest step.

For the refinement, `DocIn` reads a path back as a document; `DocumentReadsBack`
and `DocumentsUseTheRows` say that this gives documents, and that they use exactly the
texts that have rows. `CommitRefines` then has two cases: a collected reconcile
is `Reconcile` of the documents after it (`ReconciledVectors`: the vectors are those that
`EmbeddedAfter` allows), a finished rebuild is `Rebuild`. Every other action leaves
`saved` alone, and is a stutter.

### WriterLock_proofs

For any set of processes (finite or not), any budget, busy timeout, back-off and
length of transaction:

* `OneWriter`: `Spec => []TypeOK`, whose last conjunct says that the holder of the
  lock is the one process inside a transaction;
* `WritesApplyOnce`: `Spec => []AppliedOnce`;
* `WaitsAreBounded`: `Spec => []WaitBounded`;
* `NobodyOversleeps`: `Spec => LastChance`.

Assumption: `WriterLockAssumption` (the constants are numbers, and `NoProc` is not a
process). The invariant is `TypeOK` and, for each process, `Windows` and `Writes`.
`WaitBounded` is not inductive, since it says nothing of the time that is still to be
waited; `Windows` does: at `begin`, and at the end of a `sleep`, the budget is not
exceeded, and a poll ends at most one busy timeout later. That a sleep ends
within the budget is the lemma `DelayFits`, the reason why `retry_delay` cuts the
back-off to what is left. `Writes` ties the two counters to the place in the loop. A
step of one process leaves the others' conjuncts alone (`LeftAlone`, `StepOf`);
only `Tick` concerns all of them. `LastChance` then follows from `Windows` at the one
step that passes the end of the budget: only `Tick` does, a process that begins or
wakes is due before it, so the process is in a transaction itself or polls, and
polls with the lock free are due as well.

### ZgSync_proofs

For any number of processes, paths, texts, edits and crashes, and any scopes, from
`ZgSyncAssumption`, `ZgSyncBounds`, `ZgSyncNothing` and `ZgSyncCommands` (scopes are sets of
paths, bounds are numbers, the three model values are no data, the commands
are those the code has):

* `TypesAreKept`: `Spec => []TypeOK`;
* `StampsAreFaithful`: `Spec => []StampFaithful`;
* `NothingIsEmbeddedTwice`: `Spec => []NoDuplicateEmbedding`;
* `ReconcilesAreScoped`: `Spec => ScopedReconcile` if no scope has a lookalike;
* `VectorsAreComplete`: `Spec => []VectorsComplete` if the only command is search;
* `SearchIsTheSyncBoundary`: `Spec => []SyncBoundary` if there is one process.

The last three hypotheses are those of the runs that check the properties; without the
first and the third, TLC finds the counterexamples of sync_scope and sync_boundary,
and without the second what section 3 says of rebuilds. Each theorem has
its own strengthening, all over `TypeInv` (the types, and that a loaded document has a
text). `Dated`: stamps are never of the future, and a process that loaded a
document with the stamp the file has now has its text; a document stamped before an
edit and read after it is excused by its old stamp. `Locked`: who
writes is who holds the lock, nobody else embeds, and what a search embeds has no
row. `Routed`: which command is where, and that a search notes nothing outside
its scope and reads no rows outside what the pattern returns. `Embedded`: the level a process
has read is the root's, and it determines that all texts have vectors. `Bound`: the rows
a search has read are the index's, what it has noted of a path nobody edited is true
(`NoteIsTrue`), and every note is carried to a decision. `Alone` and `LockStep` are
the lemmas on a process leaving the others' locals alone.

### RootLifecycle_proofs

For any number of processes and crashes, and any commands, levels and
starting points, from `RootLifecycleAssumption`:

* `LifecycleTypes`: `Spec => []TypeOK`, which includes that a dropped table holds nothing;
* `OldRowsAreNotServed`: `Spec => []OldRowsNeverServedUnstamped`;
* `RebuildsRecover`: `Spec => []RebuildRecovers`;
* `FailuresAreMarked`: `Spec => FailureIsMarked`, an action property: it is about every
  step with which a search or status that runs alone can end.

The invariant `LInv` has, besides types, `JobAt` (which command is at which statement),
`Connected` (a connection is to the file that is there), `Unstamped` (as long as old
rows are there unstamped the version is not the new one, and no process but an init is
at a statement that could make it so), and, for a process that runs alone, `Settled` and
`Aimed`. `Settled` is the progress of the statements: which tables there
are, what the seeds have written so far. `Aimed` is about the level: `goal`, fixed when
the command begins, against `want`, which the code knows, and the level in the
file, which it reads before the reset. `Answerable` is the part that `FailuresAreMarked`
needs: a lone search or status always finds its database, never takes the way out that only
prints an error, and queries only tables that validate. `Settled` is what an interrupted
command's leftovers cannot break: it holds from the first statement of a rebuild on,
whatever that finds.

### RootCover_proofs

For a chain of any depth, any scopes and any number of edits, commands and faults, from
`RootCoverAssumption`:

* `NearestAnswers`: `Spec => []NearestIsCurrent`;
* `OuterRootsAreTolerated`: `Spec => []OuterRootsDoNotFail`;
* `RootsAreSettled`: `Spec => []CoveringRootsSettled`.

`CInv` says, while a search is `calm`, that the root it found is the nearest and the
first of its list, and is right once it is off the list; while it is `still`, that each
root above the scope is on the list or settled; and that a failure is recorded before it
is marked. That `Max` is what its name says has to be proved by hand
(`MaxOfDirs`), from the library's well-founded minimum on the naturals.

### DocumentLoader_proofs

For any directories, any number of entries, threads and edits, and any limits, from
`DocumentLoaderAssumption` (the inputs are sequences of the given files, `Absent` is
none of them, the counts and limits are numbers, the commands and levels are those the
code has) and `DocumentLoaderBodies` (a source file has a syntax tree, every other
file lines of segments):

* `LoadingTypes`: `Spec => []TypeOK`;
* `ResultsAreInOrder`: `Spec => []InputOrder`;
* `FirstErrorIsReported`: `Spec => []FirstErrorWins`;
* `NoThreadIsLeftBehind`: `Spec => []NoThreadLeftBehind`;
* `GatesCountTheIndex`: `Spec => []ForceGate`;
* `TextsAreCovered`: `Spec => []TextIsCovered`;
* `SymbolsSpeakForTheirOwn`: `Spec => []SymbolsOwnTheirTerms`.

The last two say that whatever a load returns is one of the bodies, and cite
`Chunkers_proofs`; the others use of the chunkers only that they return lists. `DInv`
has, besides types, `Batched` (each batch begins where the one before ends, the last
ends with the paths, and a worker has one result, of its own position, for each file it
has passed; a worker with an error has seen its file gone), `Joined` (the workers joined so far
have finished, and their results stand in order) and `Placed` (what each point of the
command knows of the threads). `BatchesAre` is the arithmetic of the ceil division that
cuts the paths; `InOrderIs` says that sorting what is already in order changes
nothing, which is why the results keep the order of the walk.

`ForceGate` needs `Untouched`: while nobody edits, the walk has counted exactly the
entries it has passed. Its sums are recursive over the list of documents; their
equations are proved from a least counterexample (`LeastOfNat`, `TotalsExist`,
`TotalsAgree`, `TotalAppend`).

### Chunkers_proofs

For any text (a sequence of lines, each a sequence of blank, short and long segments), any
syntax tree and any identifier; no assumption but, for `SymbolsOwnTerms`, that the limit of
terms is a number:

* `ChunksCoverTexts`: `ChunksCover(lines)` for every text, which is what
  `TextsAreCovered` says of those a load returns;
* `TextsBecomeRuns`: `ChunksAreRuns(lines)` for every text: which pieces
  `merge_short_text_chunks` puts together (that the documents do not allow for it is
  loading_marker's business);
* `SymbolsOwnTerms`: `TermsAreOwned(lang, tree)` for every tree and language;
* `IdentifiersBecomeRuns`: `PartsAreRuns(word)` for every identifier.

All of them compare a loop that carries a state with a definition that has none. The
library's induction cannot be cited (it is about an operator), so `Induct` is stated for
a set of numbers: one that has 0, and with each number up to n the next one, has them
all. `Recursion` follows from it: n steps, each defined on a set of states that it does
not leave, have a run, so the recursive function of a loop exists and obeys its
equations. From the two come what `Ascending` picks (`AscendingIs`: each place of the set
once and in order) and what `FlattenSeq` collects (`FlattenRange`).

A loop is then proved by what it has done after i elements. `PiecesUpto` says which pieces
the first m lines give. `RunsUpto` says of the chunks after i pieces that each is a run
(`IsRun`: consecutive pieces, more than one only if they are short), that together they
have the first i pieces, and that no two neighbours are both short; `AppendRuns` and `ExtendRuns` are the two branches of
`merge_short_text_chunks`. `SplitUpto` says of the splitter after i characters that the
finished parts are the runs between the places where a part begins and ends, and
that a part being read begins at the last such place; `SplitOnce` has the cases of a
separator, a capital after a small letter or digit, and any other character.

`SymbolsOwnTerms` is the walk against the tree: `GatheredIsOwned` says that a walk which
turns back at every other symbol comes to an identifier just when it started at the
innermost symbol around it. `DedupeIs` and `PrefixIs` say that what is dropped are
repetitions, and terms beyond the limit.

### SearchSession_proofs

For any rows, queries, scopes and limits, and any number of edits and commits, from
`SearchSessionAssumption` (there are finitely many paths, a body is a finite list of
lines, limits and bounds are numbers):

* `SessionTypes`: `Spec => []TypeOK`, with the unique keys of the rows;
* `VectorsNeverHideText`: `Spec => []SemanticTail`;
* `HitsAreTrue`: `Spec => []HitsTrue`;
* `QuietSearchesAreComplete`: `Spec => []QuietAnswer`.

The invariant `SInv` is made of `Types`, which has `Sound(refs)`: the rows of a path are
those of some one body, with ids and (path, position) pairs that no two rows share;
`Staged`, what the search has collected by when; `Witnessed`, what it has read
from a file was on disk during the query, and that a row has the literal label only by
a line with the query that stood at the row's place; `Current`, until another process commits,
the rows of its channels are in the index with the text they were found by; and `Calm`, of a
search nobody disturbs: the rows of its scope are the disk's, and each channel has
found all of its rows, unless they are more than its limit.

The answer is then a matter of the merge, the snippets and the page. `MergedIs` and
`MergedRow` say that merging by row id gives one hit for each row of any channel,
labelled with all of its channels, because ids are unique; `QuietHits` that in the quiet
case these hits are `Truth`, whose hits are read off the disk and know nothing of rows;
`PageIs` and `PriorityIs` what the two limits can leave out. `RebuiltIsSound`, where a
rebuild numbers the rows of all paths in a recursion over the paths, is proved from a
least counterexample, like the sums of `ForceGate`.

### Only model-checked

Liveness: `Converges` (ZgSync), `Ends` (WriterLock and DocumentLoader). They rest on
fairness and `ENABLED`, which the prover cannot do.

The TLC runs go on checking the proved properties, too: they found the errors in
statements before proofs were tried, they reach the states that the theorems speak of, and
the mutants run on them.

## 5. What is not modelled

Terminal output, argument parsing, messages and exit codes, the note about
overlapping roots after an `init`; tree-sitter itself; the embedding model (called,
counted and allowed to fail); the regex classifier and the scores that order hits
of equal priority; how the `rg` binary is found and its output parsed; the ignore
rules and name lists of the walk; `index_runs`, which no decision
reads; developer probes and benchmarks, which only read an index.

## 6. Plan

Models still worth writing:

1. `RankFusion`: RRF and lexical scores, and overlapping chunks.
2. `QueryRoute`: the regex classifier against a reference definition.
3. What a search may answer while two rebuilds reset the schema of an outdated root
   (the schema of RootLifecycle with the documents of ZgSync).

Proofs still worth having: every safety property and action property of a passing run is
a theorem, some of them under the hypotheses section 4 names. The next ones belong to
the models above.
