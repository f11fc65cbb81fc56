------------------------------- MODULE ZgSync -------------------------------
(***************************************************************************)
(* Several zg processes over one .zg root while the user edits the files:  *)
(* the reconcile that every search runs first, the search's own query, and *)
(* `zg index rebuild` (src/src/index/sync.rs; loading in files.rs).        *)
(*                                                                         *)
(* zg takes no lock while it looks at the disk: the indexed rows, the      *)
(* index level and the dirty flag are read by separate autocommit SELECTs, *)
(* then the files are walked, stat-ed and loaded one by one, and only the  *)
(* final transaction holds SQLite's writer lock.  Every one of these reads *)
(* is a step of its own here.  The transaction is DocIndex's atomic step   *)
(* (what ChunkStore shows the tables implement), split only at the point   *)
(* where it has the lock and calls the embedder.                           *)
(***************************************************************************)
EXTENDS Integers, FiniteSets

CONSTANTS
  Proc,        \* zg processes
  Path,        \* files under the root
  Text,        \* what an indexable file may say; also the shared chunk text
  Binary,      \* content that is not whitelisted text
  Blank,       \* whitelisted text that yields no chunk, such as white space
  Absent,      \* no file
  NoDoc,       \* no row in `files`
  NoProc,      \* nobody holds the writer lock
  Scopes,      \* directory scopes a search may ask for: sets of paths
  Alike,       \* rows LIKE 'scope/%' also returns: a function from Scopes
  Commands,    \* "search", "rebuild", "rebuild fts", "rebuild fts+vector"
  Levels,      \* index levels the root may have been initialised with
  MaxEdits,    \* bound: edits by the user
  MaxCrashes   \* bound: processes killed and transactions failed

Level == {"fts", "fts+vector"}

ASSUME ZgSyncAssumption ==
  /\ Scopes \subseteq SUBSET Path
  /\ Alike \in [Scopes -> SUBSET Path]
  /\ \A s \in Scopes : Alike[s] \cap s = {} /\ (s = Path => Alike[s] = {})
  /\ Levels \subseteq Level
  /\ {Binary, Blank} \cap Text = {} /\ Binary # Blank

\* Size and modification time, taken together, are a stamp that every edit
\* changes; MaxEdits of them are enough.
Stamp == 0..MaxEdits
Doc   == [stamp : Stamp, text : Text]
File  == [stamp : Stamp, text : Text \cup {Binary, Blank}]

ASSUME ZgSyncBounds == MaxEdits \in Nat /\ MaxCrashes \in Nat

ASSUME ZgSyncNothing == Absent \notin File /\ NoDoc \notin Doc /\ NoProc \notin Proc

ASSUME ZgSyncCommands ==
  Commands \subseteq {"search", "rebuild", "rebuild fts", "rebuild fts+vector"}

VARIABLES
  disk,        \* what each path holds
  clock,       \* edits so far
  docs,        \* the committed rows: what each path is indexed as
  embedded,    \* the committed vectors: texts that own one
  level,       \* settings.index_level
  dirty,       \* state.dirty
  lock,        \* the process inside a write transaction
  crashes,     \* processes killed and transactions failed so far
  pc, cmd, scope,
  rows,        \* `existing`: the rows of the scope, as read
  known,       \* the level this process works with
  wasDirty,    \* `current_state.dirty`, as read
  plan,        \* what has been found out about each path
  embedding,   \* texts this process is computing vectors for
  touched      \* history: paths edited since the command started

store == <<docs, embedded, level, dirty>>
local == <<cmd, scope, rows, known, wasDirty, plan, touched>>
vars  == <<disk, clock, store, lock, crashes, pc, local, embedding>>

KeysOf(doc) == {doc.text}

Index == INSTANCE DocIndex WITH Key <- Text

\* What is known of a path: not a candidate; walked but not yet looked at;
\* indexed with the stamp it has; to be loaded; its metadata read; loaded;
\* refused by the loader.
Tags == {"out", "walked", "fresh", "load", "meta", "doc", "skipped"}
Found(tag) == [tag |-> tag, stamp |-> 0, text |-> Binary]
Nothing == [p \in Path |-> Found("out")]

Exists(p) == disk[p] # Absent

\* What is_content_candidate accepts, and what load_indexable_document does.
IsText(p) == Exists(p) /\ disk[p].text # Binary
Loads(p) == Exists(p) /\ disk[p].text \in Text
Indexable(p) == IF Loads(p) THEN disk[p] ELSE NoDoc

Tagged(z, tag) == {p \in Path : plan[z][p].tag = tag}
Note(z, p, what) == plan' = [plan EXCEPT ![z][p] = what]
Goto(z, label) == pc' = [pc EXCEPT ![z] = label]

\* A reconcile or rebuild returns: its local variables are gone.
Return(z) ==
  /\ rows' = [rows EXCEPT ![z] = [p \in Path |-> NoDoc]]
  /\ known' = [known EXCEPT ![z] = "fts"]
  /\ wasDirty' = [wasDirty EXCEPT ![z] = FALSE]
  /\ plan' = [plan EXCEPT ![z] = Nothing]
  /\ UNCHANGED <<cmd, scope, touched>>

\* The command is over and the process forgets everything.
Forget(z) ==
  /\ Goto(z, "idle")
  /\ cmd' = [cmd EXCEPT ![z] = "search"]
  /\ scope' = [scope EXCEPT ![z] = {}]
  /\ touched' = [touched EXCEPT ![z] = {}]
  /\ rows' = [rows EXCEPT ![z] = [p \in Path |-> NoDoc]]
  /\ known' = [known EXCEPT ![z] = "fts"]
  /\ wasDirty' = [wasDirty EXCEPT ![z] = FALSE]
  /\ plan' = [plan EXCEPT ![z] = Nothing]

\* Mutation of RowsOf: loads the rows of the whole root.
RowsOfRoot(s) == Path

\* The rows load_file_rows_for_scope returns for a scope.
RowsOf(s) == s \cup Alike[s]

-----------------------------------------------------------------------------
\* A root that was initialised and has not been touched since.
Init ==
  /\ disk \in [Path -> [stamp : {0}, text : Text]]
  /\ clock = 0
  /\ docs = disk
  /\ level \in Levels
  /\ embedded = IF level = "fts+vector" THEN Index!Used(docs) ELSE {}
  /\ dirty = FALSE /\ lock = NoProc /\ crashes = 0
  /\ pc = [z \in Proc |-> "idle"]
  /\ cmd = [z \in Proc |-> "search"]
  /\ scope = [z \in Proc |-> {}]
  /\ rows = [z \in Proc |-> [p \in Path |-> NoDoc]]
  /\ known = [z \in Proc |-> "fts"]
  /\ wasDirty = [z \in Proc |-> FALSE]
  /\ plan = [z \in Proc |-> Nothing]
  /\ embedding = [z \in Proc |-> {}]
  /\ touched = [z \in Proc |-> {}]

\* The user writes or removes a file at any moment.
Change(p, now) ==
  /\ clock < MaxEdits
  /\ clock' = clock + 1
  /\ disk' = [disk EXCEPT ![p] = now]
  /\ touched' = [z \in Proc |-> IF pc[z] = "idle" THEN {} ELSE touched[z] \cup {p}]
  /\ UNCHANGED <<store, lock, crashes, pc, cmd, scope, rows, known, wasDirty,
                 plan, embedding>>

Edit(p, text) == Change(p, [stamp |-> clock + 1, text |-> text])
Remove(p) == Exists(p) /\ Change(p, Absent)

-----------------------------------------------------------------------------
(* Reconcile: what a search does before it may query *)

StartSearch(z, s) ==
  /\ pc[z] = "idle" /\ "search" \in Commands
  /\ Goto(z, "rows")
  /\ cmd' = [cmd EXCEPT ![z] = "search"]
  /\ scope' = [scope EXCEPT ![z] = s]
  /\ UNCHANGED <<disk, clock, store, lock, crashes, rows, known, wasDirty, plan,
                 embedding, touched>>

\* load_file_rows_for_scope
ReadRows(z) ==
  /\ pc[z] = "rows"
  /\ rows' = [rows EXCEPT ![z] =
                [p \in Path |-> IF p \in RowsOf(scope[z]) THEN docs[p] ELSE NoDoc]]
  /\ Goto(z, "settings")
  /\ UNCHANGED <<disk, clock, store, lock, crashes, cmd, scope, known, wasDirty,
                 plan, embedding, touched>>

\* Mutation of ReadSettings: assumes the default level.
ReadSettingsDefault(z) ==
  /\ pc[z] = "settings"
  /\ known' = [known EXCEPT ![z] = "fts"]
  /\ wasDirty' = [wasDirty EXCEPT ![z] = dirty]
  /\ Goto(z, "walk")
  /\ UNCHANGED <<disk, clock, store, lock, crashes, cmd, scope, rows, plan,
                 embedding, touched>>

\* load_index_level, load_state
ReadSettings(z) ==
  /\ pc[z] = "settings"
  /\ known' = [known EXCEPT ![z] = level]
  /\ wasDirty' = [wasDirty EXCEPT ![z] = dirty]
  /\ Goto(z, "walk")
  /\ UNCHANGED <<disk, clock, store, lock, crashes, cmd, scope, rows, plan,
                 embedding, touched>>

\* collect_scope_possible_candidates: existence and metadata only.
Walk(z) ==
  /\ pc[z] = "walk" /\ cmd[z] = "search"
  /\ plan' = [plan EXCEPT ![z] =
                [p \in Path |-> IF p \in scope[z] /\ Exists(p)
                                THEN Found("walked") ELSE Found("out")]]
  /\ Goto(z, "stat")
  /\ UNCHANGED <<disk, clock, store, lock, crashes, cmd, scope, rows, known,
                 wasDirty, embedding, touched>>

\* Mutation of Stat: trusts a row without comparing the stamp.
StatTrusting(z, p) ==
  /\ pc[z] = "stat" /\ p \in Tagged(z, "walked") /\ Exists(p)
  /\ Note(z, p, Found(IF rows[z][p] # NoDoc THEN "fresh"
                      ELSE IF IsText(p) THEN "load" ELSE "out"))
  /\ UNCHANGED <<disk, clock, store, lock, crashes, pc, cmd, scope, rows, known,
                 wasDirty, embedding, touched>>

\* One round of the stamp loop: an unchanged stamp is trusted; otherwise the
\* content decides whether the file is a candidate at all.
Stat(z, p) ==
  /\ pc[z] = "stat" /\ p \in Tagged(z, "walked") /\ Exists(p)
  /\ Note(z, p, Found(IF rows[z][p] # NoDoc /\ rows[z][p].stamp = disk[p].stamp
                      THEN "fresh"
                      ELSE IF IsText(p) THEN "load" ELSE "out"))
  /\ UNCHANGED <<disk, clock, store, lock, crashes, pc, cmd, scope, rows, known,
                 wasDirty, embedding, touched>>

StatDone(z) ==
  /\ pc[z] = "stat" /\ Tagged(z, "walked") = {}
  /\ Goto(z, "load")
  /\ UNCHANGED <<disk, clock, store, lock, crashes, local, embedding>>

\* load_indexable_document, first system call: the stamp is taken before the
\* body is read.
LoadMeta(z, p) ==
  /\ pc[z] = "load" /\ p \in Tagged(z, "load") /\ Exists(p)
  /\ Note(z, p, [tag |-> "meta", stamp |-> disk[p].stamp, text |-> Binary])
  /\ UNCHANGED <<disk, clock, store, lock, crashes, pc, cmd, scope, rows, known,
                 wasDirty, embedding, touched>>

\* Mutation of LoadBody: a file that is gone by now is read as nothing.
LoadBodyOfNothing(z, p) ==
  /\ pc[z] = "load" /\ p \in Tagged(z, "meta")
  /\ Note(z, p, [tag |-> "doc", stamp |-> plan[z][p].stamp,
                 text |-> IF Exists(p) THEN disk[p].text ELSE Absent])
  /\ UNCHANGED <<disk, clock, store, lock, crashes, pc, cmd, scope, rows, known,
                 wasDirty, embedding, touched>>

\* ... and then the body, which may have become unindexable or never was.
LoadBody(z, p) ==
  /\ pc[z] = "load" /\ p \in Tagged(z, "meta") /\ Exists(p)
  /\ Note(z, p, IF Loads(p)
                THEN [tag |-> "doc", stamp |-> plan[z][p].stamp, text |-> disk[p].text]
                ELSE Found("skipped"))
  /\ UNCHANGED <<disk, clock, store, lock, crashes, pc, cmd, scope, rows, known,
                 wasDirty, embedding, touched>>

\* Mutation of Loaded: stamps a row with the file's metadata as it is written.
LoadedStampedLate(z) ==
  [p \in Tagged(z, "doc") |->
     [stamp |-> IF Exists(p) THEN disk[p].stamp ELSE plan[z][p].stamp,
      text |-> plan[z][p].text]]

Loaded(z) ==
  [p \in Tagged(z, "doc") |-> [stamp |-> plan[z][p].stamp, text |-> plan[z][p].text]]

\* Mutation of Deletes: forgets the rows whose files were not seen.
DeletesOfSkipped(z) == Tagged(z, "skipped")

\* pending_deletes: files the loader refused, and rows nothing was seen for.
Deletes(z) ==
  Tagged(z, "skipped") \cup {p \in Tagged(z, "out") : rows[z][p] # NoDoc}

\* What the transaction will do: upserts and deletes of a reconcile; a rebuild
\* replaces everything by what it loaded.
Batch(z) ==
  IF cmd[z] = "search"
  THEN [p \in DOMAIN Loaded(z) \cup Deletes(z) |->
          IF p \in DOMAIN Loaded(z) THEN Loaded(z)[p] ELSE NoDoc]
  ELSE [p \in Path |-> IF p \in DOMAIN Loaded(z) THEN Loaded(z)[p] ELSE NoDoc]

Warns(z) == Tagged(z, "skipped") # {}

\* A reconcile with nothing to write skips the transaction.
Decide(z) ==
  /\ pc[z] = "load" /\ Tagged(z, "load") \cup Tagged(z, "meta") = {}
  /\ IF cmd[z] # "search" \/ DOMAIN Batch(z) # {} \/ wasDirty[z] # Warns(z)
     THEN Goto(z, "lock") /\ UNCHANGED local
     ELSE Goto(z, "query") /\ Return(z)
  /\ UNCHANGED <<disk, clock, store, lock, crashes, embedding>>

\* Vectors that prepare_missing_shared_chunk_vectors finds missing: in a
\* rebuild, after its DELETEs, all of them.
Missing(z) ==
  IF known[z] # "fts+vector" THEN {}
  ELSE {Loaded(z)[p].text : p \in DOMAIN Loaded(z)}
         \ (IF cmd[z] = "search" THEN Index!Used(docs) ELSE {})

\* Mutation of Lock: a DEFERRED transaction, which embeds before it has the lock.
LockDeferred(z) ==
  /\ pc[z] = "lock"
  /\ lock' = z
  /\ embedding' = [embedding EXCEPT ![z] = Missing(z)]
  /\ Goto(z, "write")
  /\ UNCHANGED <<disk, clock, store, crashes, local>>

\* BEGIN IMMEDIATE succeeds; the embedder runs while the lock is held.
Lock(z) ==
  /\ pc[z] = "lock" /\ lock = NoProc
  /\ lock' = z
  /\ embedding' = [embedding EXCEPT ![z] = Missing(z)]
  /\ Goto(z, "write")
  /\ UNCHANGED <<disk, clock, store, crashes, local>>

\* A search goes on to query the index it has just reconciled; a rebuild is
\* done.
Commit(z) ==
  /\ pc[z] = "write"
  /\ IF cmd[z] = "search"
     THEN Index!Reconcile(Batch(z), known[z] = "fts+vector")
     ELSE Index!Rebuild(Batch(z), known[z] = "fts+vector")
  /\ dirty' = Warns(z)
  /\ lock' = NoProc
  /\ embedding' = [embedding EXCEPT ![z] = {}]
  /\ Goto(z, IF cmd[z] = "search" THEN "query" ELSE "done")
  /\ Return(z)
  /\ UNCHANGED <<disk, clock, level, crashes>>

\* search_fts / search_hybrid read the committed rows.
Query(z) ==
  /\ pc[z] \in {"query", "done"}
  /\ Forget(z)
  /\ UNCHANGED <<disk, clock, store, lock, crashes, embedding>>

-----------------------------------------------------------------------------
(* Rebuild: its settings are written by autocommit statements before the     *)
(* files are read                                                            *)

Override(c) == IF c = "rebuild fts" THEN "fts" ELSE "fts+vector"

StartRebuild(z, c) ==
  /\ pc[z] = "idle" /\ c \in Commands \ {"search"}
  /\ cmd' = [cmd EXCEPT ![z] = c]
  /\ scope' = [scope EXCEPT ![z] = Path]
  /\ known' = [known EXCEPT ![z] = IF c = "rebuild" THEN level ELSE Override(c)]
  /\ Goto(z, "seed")
  /\ UNCHANGED <<disk, clock, store, lock, crashes, rows, wasDirty, plan, embedding,
                 touched>>

\* seed_defaults overwrites index_level with the default.
SeedDefaults(z) ==
  /\ pc[z] = "seed" /\ lock = NoProc
  /\ level' = "fts"
  /\ Goto(z, "set level")
  /\ UNCHANGED <<disk, clock, docs, embedded, dirty, lock, crashes, local, embedding>>

\* set_index_level with the override or the level read at the start.
SetLevel(z) ==
  /\ pc[z] = "set level" /\ lock = NoProc
  /\ level' = known[z]
  /\ Goto(z, "load level")
  /\ UNCHANGED <<disk, clock, docs, embedded, dirty, lock, crashes, local, embedding>>

\* load_index_level: whatever is there by now.
LoadLevel(z) ==
  /\ pc[z] = "load level"
  /\ known' = [known EXCEPT ![z] = level]
  /\ Goto(z, "walk")
  /\ UNCHANGED <<disk, clock, store, lock, crashes, cmd, scope, rows, wasDirty, plan,
                 embedding, touched>>

\* collect_candidate_files reads the files' bytes, so a binary file is left
\* out here; every candidate is loaded again.
WalkAll(z) ==
  /\ pc[z] = "walk" /\ cmd[z] # "search"
  /\ plan' = [plan EXCEPT ![z] =
                [p \in Path |-> IF IsText(p) THEN Found("load") ELSE Found("out")]]
  /\ Goto(z, "load")
  /\ UNCHANGED <<disk, clock, store, lock, crashes, cmd, scope, rows, known, wasDirty,
                 embedding, touched>>

-----------------------------------------------------------------------------
(* Failures *)

\* A file that was walked is gone when it is looked at.
Gone(z) ==
  \/ pc[z] = "stat" /\ \E p \in Tagged(z, "walked") : ~Exists(p)
  \/ pc[z] = "load" /\ \E p \in Tagged(z, "load") \cup Tagged(z, "meta") : ~Exists(p)

\* A rebuild returns the error; a search marks the root dirty first.
Fail(z) ==
  IF cmd[z] = "search" THEN Goto(z, "marking") /\ Return(z) ELSE Forget(z)

FileGone(z) ==
  /\ Gone(z) /\ Fail(z)
  /\ UNCHANGED <<disk, clock, store, lock, crashes, embedding>>

\* The lock could not be had for 900 s.
GiveUp(z) ==
  /\ pc[z] = "lock" /\ lock # NoProc /\ Fail(z)
  /\ UNCHANGED <<disk, clock, store, lock, crashes, embedding>>

\* The embedder or a statement of the transaction fails: it is rolled back.
RollBack(z) ==
  /\ pc[z] = "write" /\ crashes < MaxCrashes
  /\ crashes' = crashes + 1
  /\ lock' = NoProc
  /\ embedding' = [embedding EXCEPT ![z] = {}]
  /\ Fail(z)
  /\ UNCHANGED <<disk, clock, store>>

\* mark_dirty waits 3 s for the lock and then gives up in silence.
MarkDirty(z) ==
  /\ pc[z] = "marking"
  /\ dirty' = (dirty \/ lock = NoProc)
  /\ Forget(z)
  /\ UNCHANGED <<disk, clock, docs, embedded, level, lock, crashes, embedding>>

\* seed_defaults and set_index_level only wait 3 s for the lock: the rebuild
\* fails when another writer embeds for longer than that.
Busy(z) ==
  /\ pc[z] \in {"seed", "set level"} /\ lock # NoProc
  /\ Forget(z)
  /\ UNCHANGED <<disk, clock, store, lock, crashes, embedding>>

\* The process is killed; SQLite drops its transaction.
Crash(z) ==
  /\ pc[z] # "idle" /\ crashes < MaxCrashes
  /\ crashes' = crashes + 1
  /\ lock' = IF lock = z THEN NoProc ELSE lock
  /\ embedding' = [embedding EXCEPT ![z] = {}]
  /\ Forget(z)
  /\ UNCHANGED <<disk, clock, store>>

-----------------------------------------------------------------------------
Search(z) ==
  \/ ReadRows(z) \/ ReadSettings(z) \/ Walk(z) \/ StatDone(z)
  \/ \E p \in Path : Stat(z, p) \/ LoadMeta(z, p) \/ LoadBody(z, p)
  \/ Decide(z) \/ Lock(z) \/ Commit(z) \/ Query(z)
  \/ FileGone(z) \/ GiveUp(z) \/ MarkDirty(z)

Prelude(z) ==
  SeedDefaults(z) \/ SetLevel(z) \/ LoadLevel(z) \/ WalkAll(z) \/ Busy(z)

User ==
  \E p \in Path : Remove(p) \/ \E text \in Text \cup {Binary, Blank} : Edit(p, text)

Next ==
  \/ User
  \/ \E z \in Proc :
       \/ \E s \in Scopes : StartSearch(z, s)
       \/ \E c \in Commands : StartRebuild(z, c)
       \/ Search(z) \/ Prelude(z) \/ RollBack(z) \/ Crash(z)

Spec == Init /\ [][Next]_vars

\* A running process goes on running, and every process searches the whole
\* root again and again.  Nothing is assumed of the user or of crashes.
Fairness ==
  \A z \in Proc : /\ WF_vars(Search(z))
                  /\ WF_vars(Prelude(z))
                  /\ WF_vars(StartSearch(z, Path))

FairSpec == Spec /\ Fairness

-----------------------------------------------------------------------------
(* Properties *)

\* Every variable holds a value of its type.
TypeOK ==
  /\ disk \in [Path -> File \cup {Absent}] /\ clock \in 0..MaxEdits
  /\ docs \in [Path -> Doc \cup {NoDoc}] /\ embedded \subseteq Text
  /\ level \in Level /\ dirty \in BOOLEAN
  /\ lock \in Proc \cup {NoProc} /\ crashes \in 0..MaxCrashes
  /\ pc \in [Proc -> {"idle", "rows", "settings", "walk", "stat", "load", "lock",
                      "write", "query", "done", "marking", "seed", "set level", "load level"}]
  /\ cmd \in [Proc -> {"search", "rebuild", "rebuild fts", "rebuild fts+vector"}]
  /\ scope \in [Proc -> SUBSET Path]
  /\ rows \in [Proc -> [Path -> Doc \cup {NoDoc}]]
  /\ known \in [Proc -> Level] /\ wasDirty \in [Proc -> BOOLEAN]
  /\ plan \in [Proc -> [Path -> [tag : Tags, stamp : Stamp, text : Text \cup {Binary}]]]
  /\ embedding \in [Proc -> SUBSET Text] /\ touched \in [Proc -> SUBSET Path]

\* A row whose stamp is the file's stamp has the file's text: what the stamp
\* loop of reconcile_scope_for_root skips really is up to date, whatever was
\* edited while some process was reading.  (The loader takes the stamp first;
\* a body newer than its stamp is found stale by the next search.)
StampFaithful ==
  \A p \in Path :
    docs[p] # NoDoc /\ Exists(p) /\ docs[p].stamp = disk[p].stamp =>
      docs[p].text = disk[p].text

\* "Search is the sync boundary": when a search queries, every path of its
\* scope that nobody edited since the search began is indexed as it is.
SyncBoundary ==
  \A z \in Proc : pc[z] = "query" =>
    \A p \in scope[z] \ touched[z] : docs[p] = Indexable(p)

\* No process computes a vector for a text that the index already has, or
\* that another process is computing: the lock is taken before embedding.
NoDuplicateEmbedding ==
  \A z \in Proc : cmd[z] = "search" =>
    /\ embedding[z] \cap Index!Used(docs) = {}
    /\ \A y \in Proc \ {z} : embedding[z] \cap embedding[y] = {}

\* On an fts+vector root every indexed text has a vector whenever a search
\* queries.
VectorsComplete ==
  \A z \in Proc : pc[z] = "query" /\ level = "fts+vector" =>
    Index!Used([p \in Path |-> IF p \in scope[z] THEN docs[p] ELSE NoDoc]) \subseteq embedded

\* "Reconcile only touches content in the requested scope": the transaction
\* of a search leaves the rows of other paths alone.
ScopedReconcile ==
  [][\A z \in Proc :
       pc[z] = "write" /\ pc'[z] = "query" =>
         \A p \in Path \ scope[z] : docs'[p] = docs[p]]_vars

\* Once the user stops editing, searching brings the index to what is on disk
\* and it stays there, although slower processes still commit what they loaded.
Converges == <>[](\A p \in Path : docs[p] = Indexable(p))
=============================================================================
