------------------------------ MODULE RootCover ------------------------------
(***************************************************************************)
(* A search under nested roots: run_search (src/src/main.rs) finds the     *)
(* nearest index above its scope, brings every index above it up to date   *)
(* (reconcile_covering_roots, src/src/index/sync.rs) and queries the       *)
(* nearest, while other commands create, rebuild and delete indexes.       *)
(*                                                                         *)
(* The directories from the top down to the deepest scope are 1, 2, ...,   *)
(* each inside the one before and with one file of its own.  Every one of  *)
(* them may be a root.  A reconcile is one step; what may happen inside it *)
(* is the subject of ZgSync, and inside the other commands of              *)
(* RootLifecycle.                                                          *)
(***************************************************************************)
EXTENDS Integers, FiniteSetsExt

CONSTANTS
  Depth,       \* directories
  Scopes,      \* what searches may ask for
  MaxEdits,    \* bound: edits
  MaxCommands, \* bound: steps of other commands
  MaxFaults    \* bound: reconciles that fail on a valid index, deaf indexes

Dir == 1..Depth

ASSUME RootCoverAssumption ==
  /\ Depth \in Nat \ {0}
  /\ Scopes \subseteq [dir : Dir, file : BOOLEAN]
  /\ MaxEdits \in Nat /\ MaxCommands \in Nat /\ MaxFaults \in Nat

VARIABLES
  disk,     \* each file: its version, and what it is
  home,     \* .zg of each directory: none, empty, an index that is invalid or valid
  rows,     \* the version of each file in each root's index, or NoRow
  flag,     \* each root's state.dirty
  snapshot, \* what its state.json says of that: none (no file), clean or dirty
  pc, scope,
  nearest,  \* run_search: root
  todo,     \* reconcile_covering_roots: the roots still to come, the nearest first
  active,   \* the root of index 0, or 0
  failed,   \* history: roots whose reconcile failed in this search
  lost,     \* history: one of them had no .zg left to write to
  calm,     \* history: the answer's root and files were left alone
  still,    \* history: so was everything else
  edits, commands, faults

index   == <<home, rows, flag, snapshot>>
local   == <<scope, nearest, todo, active, failed, lost>>
bounds  == <<edits, commands, faults>>
vars    == <<disk, index, pc, local, calm, still, bounds>>

NoRow == -1
Empty == [k \in Dir |-> NoRow]
Ended == {"idle", "answered", "refused", "error"}

Indexed(d) == home[d] \in {"invalid", "valid"}

\* The files a scope takes in: those of its directory and below, or one.
Files(s) == IF s.file THEN {s.dir} ELSE s.dir..Depth

Above(s) == {d \in 1..s.dir : Indexed(d)}

\* A text is indexed; a blank file passes the first check and then has no
\* chunk; anything else, a file that has gone too, is passed over.
Kind == {"text", "blank", "other"}

\* What an index of a directory should say of a file.
Wanted(k) == IF disk[k].kind = "text" THEN disk[k].version ELSE NoRow

\* desired_dirty, and a rebuild's warnings: a file was skipped.
Skips(files) == \E k \in files : disk[k].kind = "blank"

Right(r, s) == \A k \in Files(s) : rows[r][k] = Wanted(k)

Init ==
  /\ disk = [k \in Dir |-> [version |-> 0, kind |-> "text"]]
  /\ home \in [Dir -> {"none", "invalid", "valid"}]
  /\ rows = [d \in Dir |-> Empty]
  /\ flag = [d \in Dir |-> FALSE]
  /\ snapshot = [d \in Dir |-> IF home[d] = "none" THEN "none" ELSE "clean"]
  /\ pc = "idle" /\ scope = [dir |-> 1, file |-> FALSE]
  /\ nearest = 0 /\ todo = {} /\ active = 0
  /\ failed = {} /\ lost = FALSE
  /\ calm = TRUE /\ still = TRUE
  /\ edits = 0 /\ commands = 0 /\ faults = 0

-----------------------------------------------------------------------------
(* What others do *)

Edit(k) ==
  /\ edits < MaxEdits /\ edits' = edits + 1
  /\ \E kind \in Kind :
       disk' = [disk EXCEPT ![k] = [version |-> edits + 1, kind |-> kind]]
  /\ still' = FALSE
  /\ calm' = (calm /\ k \notin Files(scope))
  /\ UNCHANGED <<index, pc, local, commands, faults>>

\* A step of a command on the root d.
Command(d) ==
  /\ commands < MaxCommands /\ commands' = commands + 1
  /\ still' = FALSE
  /\ calm' = (calm /\ d \notin nearest..scope.dir)
  /\ UNCHANGED <<disk, pc, local, edits, faults>>

\* init, step by step; it may die after any of them.
MakeDir(d) ==
  /\ Command(d) /\ home[d] = "none"
  /\ home' = [home EXCEPT ![d] = "empty"]
  /\ UNCHANGED <<rows, flag, snapshot>>

OpenDb(d) ==
  /\ Command(d) /\ home[d] = "empty"
  /\ home' = [home EXCEPT ![d] = "invalid"]
  /\ UNCHANGED <<rows, flag, snapshot>>

Stamp(d) ==
  /\ Command(d) /\ home[d] = "invalid"
  /\ home' = [home EXCEPT ![d] = "valid"]
  /\ UNCHANGED <<rows, flag, snapshot>>

\* The transaction of init and of rebuild.
Rebuild(d) ==
  /\ Command(d) /\ home[d] = "valid"
  /\ rows' = [rows EXCEPT ![d] = [k \in Dir |-> IF k >= d THEN Wanted(k) ELSE NoRow]]
  /\ flag' = [flag EXCEPT ![d] = Skips(d..Depth)]
  /\ UNCHANGED <<home, snapshot>>

\* write_state_snapshot, which init does before and after its transaction.
Report(d) == IF flag'[d] THEN "dirty" ELSE "clean"

Snapshot(d) ==
  /\ Command(d) /\ home[d] = "valid"
  /\ UNCHANGED <<home, rows, flag>>
  /\ snapshot' = [snapshot EXCEPT ![d] = Report(d)]

\* delete: the index, and then the directory.
Unlink(d) ==
  /\ Command(d) /\ Indexed(d)
  /\ home' = [home EXCEPT ![d] = "empty"]
  /\ rows' = [rows EXCEPT ![d] = Empty]
  /\ flag' = [flag EXCEPT ![d] = FALSE]
  /\ UNCHANGED snapshot

RemoveDir(d) ==
  /\ Command(d) /\ home[d] = "empty"
  /\ home' = [home EXCEPT ![d] = "none"]
  /\ snapshot' = [snapshot EXCEPT ![d] = "none"]
  /\ UNCHANGED <<rows, flag>>

-----------------------------------------------------------------------------
(* A search *)

Ask(s) ==
  /\ pc \in Ended
  /\ pc' = "require" /\ scope' = s
  /\ nearest' = 0 /\ todo' = {} /\ active' = 0
  /\ failed' = {} /\ lost' = FALSE
  /\ UNCHANGED <<disk, index, calm, still, bounds>>

\* find_index_root: the first index on the way up.
FindIndexRoot(s) == Max(Above(s))

\* require_index_root_for_search
Require ==
  /\ pc = "require" /\ Above(scope) # {}
  /\ pc' = "cover"
  /\ nearest' = FindIndexRoot(scope)
  /\ calm' = TRUE /\ still' = TRUE
  /\ UNCHANGED <<disk, index, scope, todo, active, failed, lost, bounds>>

Refuse ==
  /\ pc = "require" /\ Above(scope) = {}
  /\ pc' = "refused"
  /\ UNCHANGED <<disk, index, local, calm, still, bounds>>

\* Mutation of CoveringIndexRoots: only the root that is queried.
CoveringIndexRootsNearest(s) == IF Above(s) = {} THEN {} ELSE {Max(Above(s))}

\* covering_index_roots: every index on the way up.
CoveringIndexRoots(s) == Above(s)

Cover ==
  /\ pc = "cover"
  /\ todo' = CoveringIndexRoots(scope)
  /\ active' = IF todo' = {} THEN 0 ELSE Max(todo')
  /\ pc' = "sync"
  /\ UNCHANGED <<disk, index, scope, nearest, failed, lost, calm, still, bounds>>

\* The root that the loop is at: the list goes upwards from the nearest.
Current == Max(todo)

\* reconcile_scope_for_root: the rows of the scope, and the flag of the root.
Synced(r) ==
  /\ rows' = [rows EXCEPT ![r] = [k \in Dir |-> IF k \in Files(scope) THEN Wanted(k) ELSE @[k]]]
  /\ flag' = [flag EXCEPT ![r] = Skips(Files(scope))]

Sync ==
  /\ pc = "sync" /\ todo # {}
  /\ home[Current] = "valid"
  /\ Synced(Current)
  /\ snapshot' = [snapshot EXCEPT ![Current] = Report(Current)]
  /\ todo' = todo \ {Current}
  /\ UNCHANGED <<disk, home, pc, scope, nearest, active, failed, lost, calm, still, bounds>>

\* It fails: there is no index, or an invalid one.
SyncRefused ==
  /\ pc = "sync" /\ todo # {}
  /\ home[Current] # "valid"
  /\ pc' = "mark" /\ failed' = failed \cup {Current}
  /\ UNCHANGED <<disk, index, scope, nearest, todo, active, lost, calm, still, bounds>>

\* Or a file is gone, the lock is not to be had; or all is committed and then
\* the snapshot cannot be written.
SyncFails ==
  /\ pc = "sync" /\ todo # {}
  /\ home[Current] = "valid"
  /\ faults < MaxFaults /\ faults' = faults + 1
  /\ pc' = "mark" /\ failed' = failed \cup {Current}
  /\ Synced(Current) \/ UNCHANGED <<rows, flag>>
  /\ UNCHANGED <<disk, home, snapshot, scope, nearest, todo, active, lost, calm, still,
                 edits, commands>>

\* Mutation of AfterMark: an error in an outer root ends the search too.
AfterMarkStop ==
  /\ pc' = "error"
  /\ UNCHANGED todo

\* Mutation of AfterMark: no error ends the search.
AfterMarkGoOn ==
  /\ pc' = "sync"
  /\ todo' = todo \ {Current}

\* Only an error of index 0 ends the search.
AfterMark ==
  \/ Current = active /\ pc' = "error" /\ UNCHANGED todo
  \/ Current # active /\ pc' = "sync" /\ todo' = todo \ {Current}

Marked == snapshot' = [snapshot EXCEPT ![Current] = "dirty"]

\* mark_dirty, where there is a .zg: an index that is not there is created.
Mark ==
  /\ pc = "mark" /\ home[Current] # "none"
  /\ home' = [home EXCEPT ![Current] = IF @ = "empty" THEN "invalid" ELSE @]
  /\ flag' = [flag EXCEPT ![Current] = TRUE]
  /\ Marked
  /\ AfterMark
  /\ UNCHANGED <<disk, rows, scope, nearest, active, failed, lost, calm, still, bounds>>

\* Somebody else writes for longer than the 3 s: only state.json is marked.
MarkUnheard ==
  /\ pc = "mark" /\ home[Current] \in {"invalid", "valid"}
  /\ faults < MaxFaults /\ faults' = faults + 1
  /\ Marked
  /\ AfterMark
  /\ UNCHANGED <<disk, home, rows, flag, scope, nearest, active, failed, lost, calm, still,
                 edits, commands>>

\* Without a .zg state.json cannot be written, and that error is returned.
MarkFails ==
  /\ pc = "mark" /\ home[Current] = "none"
  /\ pc' = "error" /\ lost' = TRUE
  /\ UNCHANGED <<disk, index, scope, nearest, todo, active, failed, calm, still, bounds>>

\* search_indexed_with_context on the root found at first.
Query ==
  /\ pc = "sync" /\ todo = {}
  /\ pc' = IF home[nearest] = "valid" THEN "answered" ELSE "error"
  /\ UNCHANGED <<disk, index, local, calm, still, bounds>>

Next ==
  \/ \E k \in Dir : Edit(k)
  \/ \E d \in Dir : MakeDir(d) \/ OpenDb(d) \/ Stamp(d) \/ Rebuild(d) \/ Snapshot(d)
                     \/ Unlink(d) \/ RemoveDir(d)
  \/ \E s \in Scopes : Ask(s)
  \/ Require \/ Refuse \/ Cover
  \/ Sync \/ SyncRefused \/ SyncFails \/ Mark \/ MarkUnheard \/ MarkFails \/ Query

Spec == Init /\ [][Next]_vars

-----------------------------------------------------------------------------
(* Properties *)

\* "search prefers the nearest ancestor .zg/", and what it finds there is
\* current: as long as nobody changes the files of the scope, that root or a
\* directory between the two, a search that answers does so from the nearest
\* root, and that root's rows of the scope are those of the disk, whatever
\* becomes of the roots above it.
NearestIsCurrent ==
  (pc = "answered" /\ calm) => /\ nearest = Max(Above(scope))
                               /\ Right(nearest, scope)

\* A root above the nearest may be outdated, locked or deleted half-way: that
\* fails a search of a nested root only when its .zg disappears before the
\* failure can be written down.
OuterRootsDoNotFail ==
  (pc = "error" /\ calm) => nearest \in failed \/ lost

\* After a search that nobody disturbed, every root above the scope is right
\* for the scope or marked dirty, in its index or, when that was locked, at
\* least in its state.json: an error that is not returned is not forgotten.
CoveringRootsSettled ==
  (pc = "answered" /\ still) =>
    \A r \in Above(scope) : Right(r, scope) \/ flag[r] \/ snapshot[r] = "dirty"
=============================================================================
