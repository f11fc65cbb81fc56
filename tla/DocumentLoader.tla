--------------------------- MODULE DocumentLoader ---------------------------
(***************************************************************************)
(* Reading the files of a directory, in worker threads, for the commands   *)
(* that count chunks: `zg index init`, which estimates first and stops     *)
(* when the index would be too large, and a search outside every index,    *)
(* which only estimates (src/src/index/files.rs; sync.rs; main.rs).        *)
(*                                                                         *)
(* The threads share nothing but the file system, which the user changes   *)
(* while they read.  What a file becomes is TextChunks' and CodeSymbols'   *)
(* business.  ZgSync splits the read of one file further; here it is one   *)
(* step, and so is one directory entry of the walk.                        *)
(***************************************************************************)
EXTENDS Integers, FiniteSetsExt, SequencesExt, TextChunks, CodeSymbols

CONSTANTS
  Inputs,       \* directories a command may find: sequences of files
  Versions,     \* what the user may write over a file
  Absent,       \* no file
  NoDoc,        \* the file is not indexable
  Unset,        \* ZG_INDEX_THREADS is not set, or not a positive number
  Threads,      \* values of ZG_INDEX_THREADS, or Unset
  Available,    \* the machine's parallelism
  MaxWorkers,   \* DEFAULT_MAX_INDEX_WORKERS
  Recommended,  \* recommended_chunk_limit of each level
  Multiplier,   \* INIT_SANITY_CHECK_MULTIPLIER
  Commands,     \* "init", "init-force", "search"
  MaxEdits      \* bound: edits by the user

Level == {"fts", "fts+vector"}

Files == Versions \cup UNION {ToSet(files) : files \in Inputs}
Body == {f.body : f \in Files}

ASSUME DocumentLoaderAssumption ==
  /\ \A files \in Inputs : files \in Seq(Files)
  /\ Absent \notin Files
  /\ Recommended \in [Level -> Nat] /\ Multiplier \in Nat
  /\ Available \in Nat /\ MaxWorkers \in Nat \ {0} /\ TermLimit \in Nat \ {0}
  /\ Threads \subseteq (Nat \ {0}) \cup {Unset}
  /\ Commands \subseteq {"init", "init-force", "search"} /\ MaxEdits \in Nat

VARIABLES
  disk,      \* what each directory entry holds, in the order of the walk
  edits,     \* edits so far
  command,   \* the command line and the environment
  pc,        \* where the main thread is
  pass,      \* "estimate" or "rebuild"
  todo,      \* directory entries the walk has still to look at
  paths,     \* candidate_files: the entries to load
  batches,   \* one record for each worker thread
  joined,    \* threads joined so far
  loaded,    \* <<position, document>> pairs collected from joined threads
  failed,    \* the position whose error is returned, or 0
  estimate,  \* chunks the estimate counted
  outcome,   \* how the command ended
  seen       \* history: what each entry has held since the walk began

main  == <<command, pass, todo, paths, joined, loaded, failed, estimate, outcome>>
vars  == <<disk, edits, pc, main, batches, seen>>

-----------------------------------------------------------------------------
(* Files *)

\* candidate_file_metadata_size: a regular file of 1 byte to 2 MiB whose name
\* is on the list.
HasCandidateMetadata(f) == f.named /\ f.size = "fits"

\* is_content_candidate
IsCandidate(f) == HasCandidateMetadata(f) /\ f.text

IsCode(body) == SupportsCodeSymbolIndexing(body.extension)
LanguageOf(body) == CodeLanguage[body.extension]

\* The chunks of each body; a table, so that TLC chunks a body once.
ChunksOf ==
  [body \in Body |->
     IF IsCode(body) THEN BuildSymbolChunks(LanguageOf(body), body.tree, body.rows)
     ELSE BuildChunks(body.lines)]

\* A source file has what tree-sitter makes of it, any other file its lines.
ASSUME DocumentLoaderBodies ==
  \A body \in Body : IF IsCode(body) THEN body.tree \in Tree ELSE body.lines \in Seq(Seq(Segment))

\* load_indexable_document looks at the file again; unlike the walk it counts
\* lines, and a file without a chunk is no document.
Document(f) ==
  IF f.size = "fits" /\ f.text /\ ~f.tooLong /\ ChunksOf[f.body] # <<>> THEN f.body ELSE NoDoc

ChunkCount(document) == IF document = NoDoc THEN 0 ELSE Len(ChunksOf[document])

TotalChunks(documents) ==
  LET total[i \in 0..Len(documents)] == IF i = 0 THEN 0 ELSE total[i - 1] + ChunkCount(documents[i])
  IN  total[Len(documents)]

-----------------------------------------------------------------------------
(* Threads *)

Smaller(a, b) == IF a < b THEN a ELSE b
Larger(a, b) == IF a > b THEN a ELSE b

\* resolve_index_parallelism
ResolveIndexParallelism(tasks, configured) ==
  IF tasks <= 1 THEN 1
  ELSE Larger(1, Smaller(tasks, IF configured # Unset THEN configured
                                ELSE Larger(1, Smaller(Available, MaxWorkers))))

DivCeil(a, b) == (a + b - 1) \div b

\* Mutation of BatchSize: rounds down.
BatchSizeDown(tasks, workers) == Larger(1, tasks \div workers)

BatchSize(tasks, workers) == DivCeil(tasks, workers)

\* The batches of consecutive positions; one batch is read by the main thread
\* itself.  `at` is the next position, `upto` the last, `out` what was loaded.
Batches(tasks, configured) ==
  LET workers == ResolveIndexParallelism(tasks, configured)
      size    == BatchSize(tasks, workers)
  IN  [b \in 1..Smaller(workers, DivCeil(tasks, size)) |->
         [at |-> (b - 1) * size + 1, upto |-> Smaller(b * size, tasks),
          out |-> <<>>, error |-> FALSE]]

Running(batch) == ~batch.error /\ batch.at <= batch.upto

\* Documents in the order of their positions, which differ (sort_by_key): the
\* n-th is the one with n - 1 positions before its own.
InOrder(pairs) ==
  [n \in DOMAIN pairs |->
     (CHOOSE p \in ToSet(pairs) : Cardinality({q \in ToSet(pairs) : q[1] < p[1]}) = n - 1)[2]]

Documents == InOrder(loaded)

-----------------------------------------------------------------------------
Existing == {e \in DOMAIN disk : disk[e] # Absent}

Init ==
  /\ disk \in Inputs
  /\ edits = 0
  /\ command \in [kind : Commands, level : Level, threads : Threads]
  /\ command.kind = "search" => command.level = "fts"
  /\ pc = "walk" /\ pass = "estimate" /\ todo = Existing
  /\ paths = <<>> /\ batches = <<>> /\ joined = 0 /\ loaded = <<>> /\ failed = 0
  /\ estimate = 0 /\ outcome = "none"
  /\ seen = [e \in DOMAIN disk |-> {disk[e]}]

\* The user writes over a file or removes it; its name stays what it is.
Change(e, now) ==
  /\ edits < MaxEdits /\ pc # "done" /\ disk[e] # Absent
  /\ now # Absent => /\ now.named = disk[e].named
                     /\ now.body.extension = disk[e].body.extension
  /\ edits' = edits + 1
  /\ disk' = [disk EXCEPT ![e] = now]
  /\ seen' = [seen EXCEPT ![e] = @ \cup {now}]
  /\ UNCHANGED <<pc, main, batches>>

Fail ==
  /\ pc' = "done" /\ outcome' = "error"
  /\ UNCHANGED <<command, pass, todo, paths, joined, loaded, failed, estimate>>

\* collect_candidate_files looks at the next entry; one that has gone since
\* the directory was read is an error.
Look ==
  /\ pc = "walk" /\ todo # {}
  /\ LET e == Min(todo) IN
     IF disk[e] = Absent THEN Fail
     ELSE /\ paths' = IF IsCandidate(disk[e]) THEN Append(paths, e) ELSE paths
          /\ todo' = todo \ {e}
          /\ UNCHANGED <<pc, command, pass, joined, loaded, failed, estimate, outcome>>
  /\ UNCHANGED <<disk, edits, batches, seen>>

\* load_indexable_documents starts its threads.
Spawn ==
  /\ pc = "walk" /\ todo = {}
  /\ pc' = "join"
  /\ batches' = IF paths = <<>> THEN <<>> ELSE Batches(Len(paths), command.threads)
  /\ UNCHANGED <<disk, edits, main, seen>>

\* Mutation of AfterRead: waits for the file to come back.
AfterReadWaiting(batch, f) ==
  IF f = Absent THEN batch
  ELSE [batch EXCEPT !.at = @ + 1, !.out = Append(@, <<batch.at, Document(f)>>)]

\* load_indexable_document returns an error, or a document or none.
AfterRead(batch, f) ==
  IF f = Absent THEN [batch EXCEPT !.error = TRUE]
  ELSE [batch EXCEPT !.at = @ + 1, !.out = Append(@, <<batch.at, Document(f)>>)]

\* A thread loads its next file; it stops at its first error.
Read(b) ==
  /\ pc \in {"join", "leave"} /\ Running(batches[b])
  /\ batches' = [batches EXCEPT ![b] = AfterRead(@, disk[paths[@.at]])]
  /\ UNCHANGED <<disk, edits, pc, main, seen>>

\* Mutation of Join: takes whichever thread has ended.
JoinAny ==
  /\ pc = "join"
  /\ \E b \in DOMAIN batches :
       LET batch == batches[b] IN
       /\ ~Running(batch) /\ batch.upto # 0
       /\ IF batch.error
          THEN /\ pc' = "leave" /\ failed' = batch.at
               /\ UNCHANGED <<joined, loaded, batches>>
          ELSE /\ joined' = joined + 1 /\ loaded' = loaded \o batch.out
               /\ batches' = [batches EXCEPT ![b].upto = 0]
               /\ UNCHANGED <<pc, failed>>
  /\ UNCHANGED <<disk, edits, command, pass, todo, paths, estimate, outcome, seen>>

\* The main thread joins the threads in the order it started them and leaves
\* at the first one that returns an error.
Join ==
  /\ pc = "join" /\ joined < Len(batches)
  /\ LET batch == batches[joined + 1] IN
     /\ ~Running(batch)
     /\ IF batch.error
        THEN /\ pc' = "leave" /\ failed' = batch.at
             /\ UNCHANGED <<joined, loaded>>
        ELSE /\ joined' = joined + 1 /\ loaded' = loaded \o batch.out
             /\ UNCHANGED <<pc, failed>>
  /\ UNCHANGED <<disk, edits, command, pass, todo, paths, batches, estimate, outcome, seen>>

\* Mutation of Leave: returns without waiting for the other threads.
LeaveAtOnce ==
  /\ pc = "leave"
  /\ Fail
  /\ UNCHANGED <<disk, edits, batches, seen>>

\* thread::scope returns only when every thread has ended.
Leave ==
  /\ pc = "leave" /\ \A b \in DOMAIN batches : ~Running(batches[b])
  /\ Fail
  /\ UNCHANGED <<disk, edits, batches, seen>>

\* init_force_chunk_limit
ForceThreshold(level) == Recommended[level] * Multiplier

\* Mutation of RequiresForce: the threshold itself is too much.
RequiresForceInclusive(level, chunks) == chunks >= ForceThreshold(level)

RequiresForce(level, chunks) == chunks > ForceThreshold(level)

\* Mutation of Afresh: keeps the number of joined threads.
AfreshButJoined == paths' = <<>> /\ batches' = <<>> /\ loaded' = <<>> /\ UNCHANGED joined

\* A load's local variables are gone when it returns.
Afresh == paths' = <<>> /\ batches' = <<>> /\ loaded' = <<>> /\ joined' = 0

\* The rest of estimate_indexable_chunks, then require_index_root_for_search,
\* or preflight_init and run_index_command: a search only suggests the levels
\* the directory is small enough for; an init goes on to rebuild.
Estimate ==
  /\ pc = "join" /\ joined = Len(batches) /\ pass = "estimate"
  /\ estimate' = TotalChunks(Documents)
  /\ IF command.kind = "search"
     THEN /\ outcome' = IF estimate' <= Recommended["fts+vector"] THEN "suggests-fts+vector"
                        ELSE IF estimate' <= Recommended["fts"] THEN "suggests-fts"
                        ELSE "suggests-nothing"
          /\ pc' = "done" /\ UNCHANGED <<pass, todo>>
     ELSE IF RequiresForce(command.level, estimate') /\ command.kind = "init"
     THEN outcome' = "refused" /\ pc' = "done" /\ UNCHANGED <<pass, todo>>
     ELSE pass' = "rebuild" /\ todo' = Existing /\ pc' = "walk" /\ UNCHANGED outcome
  /\ Afresh
  /\ seen' = [e \in DOMAIN disk |-> IF pc' = "walk" THEN {disk[e]} ELSE seen[e]]
  /\ UNCHANGED <<disk, edits, command, failed>>

\* rebuild_index_with_level: what is loaded is indexed.
Rebuild ==
  /\ pc = "join" /\ joined = Len(batches) /\ pass = "rebuild"
  /\ outcome' = "indexed" /\ pc' = "done"
  /\ UNCHANGED <<disk, edits, batches, seen, command, pass, todo, paths, joined, loaded,
                 failed, estimate>>

Zg == Look \/ Spawn \/ (\E b \in DOMAIN batches : Read(b)) \/ Join \/ Leave \/ Estimate \/ Rebuild

User == \E e \in DOMAIN disk : \E now \in Versions \cup {Absent} : Change(e, now)

Next == Zg \/ User

\* Threads and the main thread go on running; the user need not.
Spec == Init /\ [][Next]_vars /\ WF_vars(Zg)

-----------------------------------------------------------------------------
(* Properties *)

\* Every variable holds a value of its type.
TypeOK ==
  /\ edits \in 0..MaxEdits /\ pc \in {"walk", "join", "leave", "done"}
  /\ pass \in {"estimate", "rebuild"}
  /\ todo \cup ToSet(paths) \subseteq DOMAIN disk
  /\ joined \in 0..Len(batches) /\ failed \in 0..Len(paths)
  /\ \A b \in DOMAIN batches : batches[b].at \in 1..(batches[b].upto + 1)
  /\ \A k \in DOMAIN loaded : loaded[k] \in (DOMAIN paths) \X (Body \cup {NoDoc})
  /\ outcome \in {"none", "error", "refused", "indexed", "suggests-fts+vector",
                  "suggests-fts", "suggests-nothing"}

\* "The order of the results must be the order of the input files": when all
\* threads are joined there is one result for each path, and it is what that
\* path held at some moment of this load.  The index, and the first warning,
\* are then what a single thread could have produced.
InputOrder ==
  pc = "join" /\ joined = Len(batches) =>
    /\ Len(Documents) = Len(paths)
    /\ \A i \in DOMAIN paths :
         Documents[i] \in {Document(f) : f \in seen[paths[i]] \ {Absent}}

\* The error a load reports is that of the first failing file in input order,
\* however the threads are scheduled: the file was gone, and every file before
\* it was loaded.
FirstErrorWins ==
  pc = "leave" =>
    /\ Absent \in seen[paths[failed]]
    /\ \A i \in 1..(failed - 1) :
         \E b \in DOMAIN batches : \E k \in DOMAIN batches[b].out : batches[b].out[k][1] = i

\* A command never goes on, or returns, while one of its threads still reads.
NoThreadLeftBehind ==
  pc \in {"walk", "done"} => \A b \in DOMAIN batches : ~Running(batches[b])

Quiet == edits = 0
Total == TotalChunks([e \in DOMAIN disk |-> IF IsCandidate(disk[e]) THEN Document(disk[e]) ELSE NoDoc])

\* "Every gate based on the number of chunks must use the real chunking": of a
\* directory nobody changes, an init without --force indexes exactly when the
\* index gets no more chunks than the threshold of its level, and a search
\* suggests exactly the levels whose recommended size holds the index.
ForceGate ==
  pc = "done" /\ Quiet =>
    CASE outcome = "refused" -> command.kind = "init" /\ Total > ForceThreshold(command.level)
      [] outcome = "indexed" -> /\ TotalChunks(Documents) = Total
                                /\ command.kind = "init" => Total <= ForceThreshold(command.level)
      [] outcome = "suggests-fts+vector" -> Total <= Recommended["fts+vector"]
      [] outcome = "suggests-fts" -> /\ Total <= Recommended["fts"]
                                     /\ Total > Recommended["fts+vector"]
      [] outcome = "suggests-nothing" -> Total > Recommended["fts"]
      [] OTHER -> FALSE

\* What a load returns, once it is complete.
Loaded == IF pc = "join" /\ joined = Len(batches) THEN ToSet(Documents) \ {NoDoc} ELSE {}

\* TextChunks!ChunksCover of every text loaded: its chunks leave no text out,
\* repeat none, swallow no long piece and name the lines they are on.
TextIsCovered ==
  \A body \in Loaded : ~IsCode(body) => ChunksCover(body.lines)

\* "Each line is a chunk by default, and a line can be split further with the
\* inline marker": of every text loaded, no chunk holds two lines, or two sides
\* of a marker.  merge_short_text_chunks puts short ones together again.
LinesAndMarkersSplit ==
  \A body \in Loaded : ~IsCode(body) => PiecesStayApart(body.lines)

\* CodeSymbols!TermsAreOwned and PartsAreRuns of every source file loaded: an
\* identifier speaks for the innermost symbol around it and for no other, by
\* its whole name and by its parts.
SymbolsOwnTheirTerms ==
  \A body \in Loaded : IsCode(body) =>
    /\ TermsAreOwned(LanguageOf(body), body.tree)
    /\ \A n \in DOMAIN body.tree :
         body.tree[n].kind \in IdentifierLike => PartsAreRuns(body.tree[n].word)

\* A command comes to an end, whatever the user does to the files.
Ends == <>(pc = "done")
=============================================================================
