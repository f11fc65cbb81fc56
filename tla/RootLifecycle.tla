---------------------------- MODULE RootLifecycle ----------------------------
(***************************************************************************)
(* The life of one .zg directory: `zg index init`, `rebuild`, `delete`,    *)
(* `status` and a search, each a series of file-system calls and           *)
(* autocommit statements that may be interrupted anywhere and interleave   *)
(* with another zg (src/src/index/sync.rs, the schema part of db.rs).      *)
(*                                                                         *)
(* The nine tables are three here, in the order in which reset_schema      *)
(* drops them: "rows" (everything about documents), "state", "settings".   *)
(* vec_index, which is dropped after settings, is counted with "rows".     *)
(* state.json is left out: zg writes it and never reads it.                *)
(***************************************************************************)
EXTENDS FiniteSets, Integers

CONSTANTS
  Proc,        \* zg processes
  Commands,    \* of "init", "rebuild", "delete", "status", "search"
  Levels,      \* levels --level may ask for
  Starts,      \* what the directory may hold at first: of
               \*   "nothing", "old" (an older zg's index), "current"
  MaxCrashes   \* bound: processes killed

Level  == {"fts", "fts+vector"}
Tables == {"rows", "state", "settings"}

ASSUME RootLifecycleAssumption ==
  /\ Levels \subseteq Level
  /\ Starts \subseteq {"nothing", "old", "current"}
  /\ Commands \subseteq {"init", "rebuild", "delete", "status", "search"}
  /\ MaxCrashes \in Nat

VARIABLES
  dir,         \* .zg exists
  file,        \* .zg/index.db exists
  tables,      \* the tables in it
  version,     \* settings.schema_version: "none", "old" or "new"
  level,       \* settings.index_level, or "none"
  dirty,       \* the state row: "none", "clean" or "dirty"
  rows,        \* who wrote the documents: "empty", "old" or "new" zg
  crashes,     \* processes killed so far
  pc,
  job,         \* the command, or the part of it that is running
  want,        \* the level the command works for, or "none"
  conn,        \* holds a connection to the index.db that is there now
  alone,       \* history: no other process ran since the command started
  goal,        \* history: the level the root should have afterwards
  stamped      \* history: an init has put its schema version on old documents

store   == <<dir, file, tables, version, level, dirty, rows>>
local   == <<job, want, conn>>
history == <<alone, goal, stamped>>
vars    == <<store, crashes, pc, local, history>>

Goto(z, label) == pc' = [pc EXCEPT ![z] = label]

\* Mutation of Valid: does not compare the version.
ValidTables == file /\ tables = Tables

\* validate_schema
Valid == file /\ tables = Tables /\ version = "new"

\* Mutation of Keep: the dirty flag outlives its table.
KeepDirty(left) ==
  /\ tables' = left
  /\ rows' = IF "rows" \in left THEN rows ELSE "empty"
  /\ version' = IF "settings" \in left THEN version ELSE "none"
  /\ level' = IF "settings" \in left THEN level ELSE "none"
  /\ UNCHANGED dirty

\* What is left of a table's content when only `left` remain.
Keep(left) ==
  /\ tables' = left
  /\ rows' = IF "rows" \in left THEN rows ELSE "empty"
  /\ dirty' = IF "state" \in left THEN dirty ELSE "none"
  /\ version' = IF "settings" \in left THEN version ELSE "none"
  /\ level' = IF "settings" \in left THEN level ELSE "none"

Init ==
  /\ \E start \in Starts :
       /\ dir = (start # "nothing") /\ file = (start # "nothing")
       /\ tables = IF start = "nothing" THEN {} ELSE Tables
       /\ version = CASE start = "nothing" -> "none" [] start = "old" -> "old"
                      [] start = "current" -> "new"
       /\ rows = CASE start = "nothing" -> "empty" [] start = "old" -> "old"
                   [] start = "current" -> "new"
       /\ dirty = IF start = "nothing" THEN "none" ELSE "clean"
       /\ \/ start = "nothing" /\ level = "none"
          \/ start # "nothing" /\ level \in Level
  /\ crashes = 0
  /\ pc = [z \in Proc |-> "idle"]
  /\ job = [z \in Proc |-> "none"]
  /\ want = [z \in Proc |-> "none"]
  /\ conn = [z \in Proc |-> FALSE]
  /\ alone = [z \in Proc |-> FALSE]
  /\ goal = [z \in Proc |-> "none"]
  /\ stamped = FALSE

-----------------------------------------------------------------------------
(* Starting and ending a command *)

Start(z, name, lvl, label) ==
  /\ pc[z] = "idle"
  /\ Goto(z, label)
  /\ job' = [job EXCEPT ![z] = name]
  /\ want' = [want EXCEPT ![z] = lvl]
  /\ alone' = [y \in Proc |-> IF y = z THEN \A x \in Proc \ {z} : pc[x] = "idle"
                              ELSE FALSE]
  /\ goal' = [goal EXCEPT ![z] = IF lvl # "none" THEN lvl
                                 ELSE IF level = "none" THEN "fts" ELSE level]
  /\ UNCHANGED <<store, crashes, conn, stamped>>

\* A rebuild without --level looks at the status first (effective_rebuild_level).
StartCommand(z) ==
  \/ "init" \in Commands /\ \E lvl \in Levels : Start(z, "init", lvl, "mkdir")
  \/ "rebuild" \in Commands /\ \E lvl \in Levels : Start(z, "rebuild", lvl, "ensure")
  \/ "rebuild" \in Commands /\ file /\ Start(z, "prepare", "none", "status")
  \/ "delete" \in Commands /\ dir /\ Start(z, "delete", "none", "unlink")
  \/ "status" \in Commands /\ file /\ Start(z, "status", "none", "status")
  \/ "search" \in Commands /\ file /\ Start(z, "search", "none", "open")

\* The process is over: with an answer, a report or an error message.
Exit(z) ==
  /\ Goto(z, "idle")
  /\ job' = [job EXCEPT ![z] = "none"]
  /\ want' = [want EXCEPT ![z] = "none"]
  /\ conn' = [conn EXCEPT ![z] = FALSE]
  /\ alone' = [alone EXCEPT ![z] = FALSE]
  /\ goal' = [goal EXCEPT ![z] = "none"]
  /\ UNCHANGED stamped

Finish(z) ==
  /\ pc[z] \in {"answer", "no answer", "failed"}
  /\ Exit(z)
  /\ UNCHANGED <<store, crashes>>

\* Mutation of Fail: only an index that does not validate is marked.
FailOnBadSchema(z) ==
  /\ Goto(z, IF job[z] = "search" /\ ~Valid THEN "mark open" ELSE "failed")
  /\ UNCHANGED <<store, crashes, local, history>>

\* A search whose reconcile fails, wherever that is, marks the root dirty; other
\* commands print the error.
Fail(z) ==
  /\ Goto(z, IF job[z] = "search" THEN "mark open" ELSE "failed")
  /\ UNCHANGED <<store, crashes, local, history>>

-----------------------------------------------------------------------------
(* Opening the database *)

\* Connection::open creates the file when the directory is there.
Connect(z) ==
  /\ dir
  /\ file' = TRUE
  /\ conn' = [conn EXCEPT ![z] = TRUE]
  /\ UNCHANGED <<dir, tables, version, level, dirty, rows>>

\* init_index_with_level: create_dir_all.
MakeDir(z) ==
  /\ pc[z] = "mkdir"
  /\ dir' = TRUE
  /\ Goto(z, "open")
  /\ UNCHANGED <<file, tables, version, level, dirty, rows, crashes, local, history>>

\* ensure_index_root of a rebuild, before it opens the file.
Ensure(z) ==
  /\ pc[z] = "ensure"
  /\ IF file THEN Goto(z, "reopen") /\ UNCHANGED <<local, history>> ELSE Exit(z)
  /\ UNCHANGED <<store, crashes>>

Open(z) ==
  /\ pc[z] \in {"open", "reopen"}
  /\ \/ /\ Connect(z)
        /\ Goto(z, CASE pc[z] = "reopen" -> "retain"
                     [] job[z] = "init" -> "create settings"
                     [] job[z] = "search" -> "validate")
        /\ UNCHANGED <<crashes, job, want, history>>
     \/ ~dir /\ Fail(z)

-----------------------------------------------------------------------------
(* Creating and resetting the schema *)

\* One CREATE TABLE IF NOT EXISTS of create_schema.
Create(z, label, table, next) ==
  /\ pc[z] = label /\ conn[z]
  /\ tables' = tables \cup {table}
  /\ Goto(z, next)
  /\ UNCHANGED <<dir, file, version, level, dirty, rows, crashes, local, history>>

CreateSchema(z) ==
  \/ Create(z, "create settings", "settings", "create state")
  \/ Create(z, "create state", "state", "create rows")
  \/ Create(z, "create rows", "rows", "seed version")
  \/ Create(z, "mark settings", "settings", "mark state")
  \/ Create(z, "mark state", "state", "mark rows")
  \/ Create(z, "mark rows", "rows", "set dirty")

\* Mutation of Retain: the level is read after the reset.
RetainAfterReset(z) ==
  /\ pc[z] = "retain" /\ conn[z]
  /\ want' = [want EXCEPT ![z] = IF @ # "none" \/ ~Valid THEN @ ELSE level]
  /\ Goto(z, IF Valid THEN "create settings" ELSE "drop rows")
  /\ UNCHANGED <<store, crashes, job, conn, history>>

\* retained_index_level: an error (no table) counts as unknown, a missing row
\* as the default.
Retain(z) ==
  /\ pc[z] = "retain" /\ conn[z]
  /\ want' = [want EXCEPT ![z] = IF @ # "none" THEN @
                                 ELSE IF "settings" \notin tables THEN "none"
                                 ELSE IF level = "none" THEN "fts" ELSE level]
  /\ Goto(z, IF Valid THEN "create settings" ELSE "drop rows")
  /\ UNCHANGED <<store, crashes, job, conn, history>>

\* reset_schema, statement by statement.
Drop(z, label, table, next) ==
  /\ pc[z] = label /\ conn[z]
  /\ Keep(tables \ {table})
  /\ Goto(z, next)
  /\ UNCHANGED <<dir, file, crashes, local, history>>

ResetSchema(z) ==
  \/ Drop(z, "drop rows", "rows", "drop state")
  \/ Drop(z, "drop state", "state", "drop settings")
  \/ Drop(z, "drop settings", "settings", "create settings")

\* seed_defaults: upserts of the settings, then the state row if there is none.
Seed(z) ==
  /\ conn[z]
  /\ \/ /\ pc[z] = "seed version" /\ "settings" \in tables
        /\ version' = "new"
        /\ stamped' = (stamped \/ (job[z] = "init" /\ rows = "old"))
        /\ Goto(z, "seed level") /\ UNCHANGED <<level, dirty>>
     \/ /\ pc[z] = "seed level" /\ "settings" \in tables
        /\ level' = "fts"
        /\ Goto(z, "seed state") /\ UNCHANGED <<version, dirty, stamped>>
     \/ /\ pc[z] = "seed state" /\ "state" \in tables
        /\ dirty' = (IF dirty = "none" THEN "clean" ELSE dirty)
        /\ Goto(z, "set level") /\ UNCHANGED <<version, level, stamped>>
  /\ UNCHANGED <<dir, file, tables, rows, crashes, local, alone, goal>>

\* set_index_level, skipped by a rebuild that knows no level.
SetLevel(z) ==
  /\ pc[z] = "set level" /\ conn[z]
  /\ want[z] = "none" \/ "settings" \in tables
  /\ level' = (IF want[z] = "none" THEN level ELSE want[z])
  /\ Goto(z, IF job[z] = "init" THEN "init status" ELSE "replace")
  /\ UNCHANGED <<dir, file, tables, version, dirty, rows, crashes, local, history>>

\* Another process dropped the table the statement needs.
NoSuchTable(z) ==
  /\ conn[z]
  /\ \/ pc[z] \in {"seed version", "seed level"} /\ "settings" \notin tables
     \/ pc[z] = "set level" /\ want[z] # "none" /\ "settings" \notin tables
     \/ pc[z] = "seed state" /\ "state" \notin tables
     \/ pc[z] \in {"replace", "reconcile"} /\ tables # Tables
  /\ Fail(z)

\* status_for_index_root at the end of init's own part; the rest is a rebuild.
InitStatus(z) ==
  /\ pc[z] = "init status"
  /\ \/ /\ Valid
        /\ Goto(z, "ensure")
        /\ job' = [job EXCEPT ![z] = "build"]
        /\ conn' = [conn EXCEPT ![z] = FALSE]
        /\ UNCHANGED <<store, crashes, want, history>>
     \/ ~Valid /\ Fail(z)

-----------------------------------------------------------------------------
(* The transactions *)

\* The transaction of rebuild_index_with_level.  Its INSERTs into tables that
\* an older zg created succeed only if the columns are still the same.
Replace(z) ==
  /\ pc[z] = "replace" /\ conn[z] /\ tables = Tables
  /\ \/ /\ rows' = "new"
        /\ dirty' \in {"clean", "dirty"}
        /\ Goto(z, "rebuilt")
        /\ UNCHANGED <<dir, file, tables, version, level, crashes, local, history>>
     \/ rows = "old" /\ Fail(z)

\* validate_schema of reconcile_scope_for_root.
Validate(z) ==
  /\ pc[z] = "validate" /\ conn[z]
  /\ \/ /\ Valid
        /\ Goto(z, "reconcile")
        /\ UNCHANGED <<store, crashes, local, history>>
     \/ ~Valid /\ Fail(z)

\* The transaction of reconcile_scope_for_root, or none when nothing changed:
\* documents whose stamp matches are left as they are.  A file that is gone, the
\* embedder or the lock may make it fail.
Reconcile(z) ==
  /\ pc[z] = "reconcile" /\ conn[z] /\ tables = Tables
  /\ \/ /\ rows' = (IF rows = "empty" THEN "new" ELSE rows)
        /\ dirty' \in {"clean", "dirty"}
        /\ Goto(z, "snapshot")
        /\ UNCHANGED <<dir, file, tables, version, level, crashes, local, history>>
     \/ Fail(z)

\* status_for_index_root for the snapshot, on a connection of its own.
Snapshot(z) ==
  /\ pc[z] = "snapshot"
  /\ \/ /\ Valid
        /\ Goto(z, "query")
        /\ conn' = [conn EXCEPT ![z] = FALSE]
        /\ UNCHANGED <<store, crashes, job, want, history>>
     \/ ~Valid /\ Fail(z)

\* search_indexed_with_context opens and validates once more, and may fail on a
\* good index too (rg, the embedder); its errors are only printed.
Query(z) ==
  /\ pc[z] = "query"
  /\ \/ Valid /\ \E end \in {"answer", "no answer"} : Goto(z, end)
     \/ ~Valid /\ Goto(z, "failed")
  /\ UNCHANGED <<store, crashes, local, history>>

-----------------------------------------------------------------------------
(* Status and mark_dirty *)

\* A command is over, or goes on to the rebuild that it looked at the status
\* for.
Continue(z) ==
  IF job[z] = "prepare"
  THEN /\ Goto(z, "ensure")
       /\ job' = [job EXCEPT ![z] = "rebuild"]
       /\ conn' = [conn EXCEPT ![z] = FALSE]
       /\ UNCHANGED <<want, history>>
  ELSE Exit(z)

\* load_status
Status(z) ==
  /\ pc[z] = "status"
  /\ IF Valid THEN Continue(z) ELSE Goto(z, "mark open") /\ UNCHANGED <<local, history>>
  /\ UNCHANGED <<store, crashes>>

\* After its transaction a rebuild writes the snapshot, and `zg index rebuild`
\* reports the status.
Rebuilt(z) ==
  /\ pc[z] = "rebuilt"
  /\ IF ~Valid THEN Goto(z, "failed") /\ UNCHANGED <<local, history>>
     ELSE IF job[z] = "rebuild" THEN Goto(z, "status") /\ UNCHANGED <<local, history>>
     ELSE Exit(z)
  /\ UNCHANGED <<store, crashes>>

\* mark_dirty opens or creates the database, completes its schema and sets the
\* flag; whatever fails is ignored.
MarkOpen(z) ==
  /\ pc[z] = "mark open"
  /\ \/ Connect(z) /\ Goto(z, "mark settings") /\ UNCHANGED <<crashes, job, want, history>>
     \/ ~dir /\ Exit(z) /\ UNCHANGED <<store, crashes>>

\* The UPDATE waits 3 s for a writer that may be embedding, then is dropped.
SetDirty(z) ==
  /\ pc[z] = "set dirty" /\ conn[z]
  /\ \/ dirty' = (IF "state" \in tables THEN "dirty" ELSE dirty)
     \/ /\ \E y \in Proc \ {z} : pc[y] \in {"reconcile", "replace"}
        /\ dirty' = dirty
  /\ Continue(z)
  /\ UNCHANGED <<dir, file, tables, version, level, rows, crashes>>

-----------------------------------------------------------------------------
(* Delete, and what it does to others *)

\* remove_dir_all unlinks the files; connections stay on the unlinked file.
Unlink(z) ==
  /\ pc[z] = "unlink"
  /\ file' = FALSE
  /\ Keep({})
  /\ conn' = [y \in Proc |-> FALSE]
  /\ Goto(z, "rmdir")
  /\ UNCHANGED <<dir, crashes, job, want, history>>

\* ... and the directory, unless somebody has put a file there again.
RemoveDir(z) ==
  /\ pc[z] = "rmdir"
  /\ dir' = file
  /\ Exit(z)
  /\ UNCHANGED <<file, tables, version, level, dirty, rows, crashes>>

\* A process whose file was unlinked goes on writing to nowhere, or fails.
Working ==
  {"create settings", "create state", "create rows", "retain", "drop rows",
   "drop state", "drop settings", "seed version", "seed level", "seed state",
   "set level", "replace", "validate", "reconcile",
   "mark settings", "mark state", "mark rows", "set dirty"}

Orphaned(z) ==
  /\ pc[z] \in Working /\ ~conn[z]
  /\ \/ pc[z] \in {"validate", "reconcile"} /\ Goto(z, "snapshot")
        /\ UNCHANGED <<local, history>>
     \/ pc[z] \in {"mark settings", "mark state", "mark rows", "set dirty"} /\ Continue(z)
     \/ pc[z] \in Working \ {"mark settings", "mark state", "mark rows", "set dirty"}
        /\ Goto(z, IF job[z] = "search" THEN "mark open" ELSE "failed")
        /\ UNCHANGED <<local, history>>
  /\ UNCHANGED <<store, crashes>>

Crash(z) ==
  /\ pc[z] # "idle" /\ crashes < MaxCrashes
  /\ crashes' = crashes + 1
  /\ Exit(z)
  /\ UNCHANGED store

-----------------------------------------------------------------------------
Next ==
  \E z \in Proc :
    \/ StartCommand(z) \/ Finish(z)
    \/ MakeDir(z) \/ Ensure(z) \/ Open(z)
    \/ CreateSchema(z) \/ Retain(z) \/ ResetSchema(z)
    \/ Seed(z) \/ SetLevel(z) \/ NoSuchTable(z) \/ InitStatus(z)
    \/ Replace(z) \/ Validate(z) \/ Reconcile(z) \/ Snapshot(z) \/ Query(z)
    \/ Status(z) \/ Rebuilt(z) \/ MarkOpen(z) \/ SetDirty(z)
    \/ Unlink(z) \/ RemoveDir(z) \/ Orphaned(z) \/ Crash(z)

Spec == Init /\ [][Next]_vars

-----------------------------------------------------------------------------
(* Properties *)

\* Every variable holds a value of its type, and a table that does not exist
\* holds nothing.
TypeOK ==
  /\ dir \in BOOLEAN /\ file \in BOOLEAN /\ tables \subseteq Tables
  /\ version \in {"none", "old", "new"} /\ level \in Level \cup {"none"}
  /\ dirty \in {"none", "clean", "dirty"} /\ rows \in {"empty", "old", "new"}
  /\ "rows" \notin tables => rows = "empty"
  /\ "state" \notin tables => dirty = "none"
  /\ "settings" \notin tables => version = "none" /\ level = "none"
  /\ crashes \in 0..MaxCrashes
  /\ pc \in [Proc -> Working \cup {"idle", "answer", "no answer", "failed", "mkdir",
                      "ensure", "open", "reopen", "init status", "rebuilt", "snapshot",
                      "query", "status", "mark open", "unlink", "rmdir"}]
  /\ job \in [Proc -> {"none", "init", "build", "rebuild", "prepare", "delete",
                       "status", "search"}]
  /\ want \in [Proc -> Level \cup {"none"}] /\ goal \in [Proc -> Level \cup {"none"}]
  /\ conn \in [Proc -> BOOLEAN] /\ alone \in [Proc -> BOOLEAN] /\ stamped \in BOOLEAN

\* No search answers from documents that an older zg chunked and hashed, as
\* long as no init has stamped that zg's index with the new version: the schema
\* version tells the two apart, whichever commands were interrupted before.
OldRowsNeverServedUnstamped ==
  ~stamped => \A z \in Proc : pc[z] = "answer" => rows # "old"

\* From whatever interrupted commands left behind, a rebuild (or the one inside
\* an init) that runs alone succeeds, and leaves a complete index of the level
\* that was asked for or that the root had before.  (It can only fail on old
\* tables that an init has given the new version, which it does not reset.)
RebuildRecovers ==
  \A z \in Proc : alone[z] /\ job[z] \in {"build", "rebuild"} =>
    /\ pc[z] = "failed" => stamped /\ rows = "old"
    /\ pc[z] = "rebuilt" => Valid /\ rows = "new" /\ level = goal[z]

\* A search or a status that runs alone, whatever earlier commands have left of
\* the root, comes to its query or its report over tables of the right version,
\* or else leaves the root marked dirty: no step of theirs fails without a mark.
\* (Errors of the query after that, rg's or the embedder's, are printed and not
\* marked: the index is in order then.)
FailureIsMarked ==
  [][\A z \in Proc :
       job[z] \in {"search", "status"} /\ alone[z] /\ pc'[z] = "idle" /\ crashes' = crashes =>
         \/ pc[z] \in {"answer", "no answer", "status"} /\ Valid
         \/ dirty' = "dirty"]_vars
=============================================================================
