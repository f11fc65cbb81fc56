-------------------------- MODULE RootCover_proofs --------------------------
(***************************************************************************)
(* Proofs about RootCover, for any depth of nesting, any set of scopes and *)
(* any number of edits, commands and faults.                               *)
(***************************************************************************)
EXTENDS RootCover, WellFoundedInduction, TLAPS

-----------------------------------------------------------------------------
(* The greatest of some directories *)

LEMMA LeastOfNat ==
  ASSUME NEW S, S \subseteq Nat, S # {}
  PROVE  \E x \in S : \A y \in S : x <= y
<1>1. PICK x \in S : \A y \in S : <<y, x>> \notin OpToRel(<, Nat)
  BY NatLessThanWellFounded, WFMin
<1>2. \A y \in S : ~(y < x)
  BY <1>1 DEF OpToRel
<1> QED BY <1>2

\* Max is what it says on the directories of a path.
LEMMA MaxOfDirs ==
  ASSUME NEW n \in Nat, NEW S \in SUBSET (1..n), S # {}
  PROVE  /\ Max(S) \in S
         /\ \A y \in S : Max(S) >= y
<1> DEFINE T == {n - x : x \in S}
<1>1. ASSUME NEW x \in S PROVE x \in Int /\ n - x \in Nat
  OBVIOUS
<1>2. T \subseteq Nat /\ T # {}
  BY <1>1
<1>3. PICK t \in T : \A u \in T : t <= u
  BY <1>2, LeastOfNat
<1>4. PICK x \in S : t = n - x
  BY <1>3
<1>5. ASSUME NEW y \in S PROVE x >= y
  <2>1. n - x <= n - y
    BY <1>3, <1>4
  <2> QED BY <2>1, <1>1
<1> QED BY <1>5 DEF Max

LEMMA MaxIs ==
  ASSUME NEW n \in Nat, NEW S \in SUBSET (1..n), NEW x \in S, \A y \in S : x >= y
  PROVE  Max(S) = x
<1>1. Max(S) \in S /\ Max(S) >= x
  BY MaxOfDirs
<1>2. \A y \in S : y \in Int
  OBVIOUS
<1>3. x >= Max(S) /\ x \in Int /\ Max(S) \in Int
  BY <1>1, <1>2
<1> QED BY <1>1, <1>3

-----------------------------------------------------------------------------
(* The inductive invariant *)

Types ==
  /\ disk \in [Dir -> [version : Int, kind : Kind]]
  /\ home \in [Dir -> {"none", "empty", "invalid", "valid"}]
  /\ rows \in [Dir -> [Dir -> Int]]
  /\ flag \in [Dir -> BOOLEAN] /\ snapshot \in [Dir -> {"none", "clean", "dirty"}]
  /\ scope \in [dir : Dir, file : BOOLEAN]
  /\ nearest \in Int /\ todo \subseteq Dir /\ failed \subseteq Dir
  /\ calm \in BOOLEAN /\ still \in BOOLEAN /\ lost \in BOOLEAN /\ edits \in Int

\* r is the nearest root.
Nearest(r) ==
  /\ r \in 1..scope.dir /\ Indexed(r)
  /\ \A d \in 1..scope.dir : Indexed(d) => d <= r

\* A failure is recorded before it is written down.
Recorded == pc = "mark" => todo # {} /\ Current \in failed

\* While nobody disturbs it, a search stays with the root that it found: that is
\* index 0 of its list, and once it has been dealt with it is valid and right.
Calm ==
  calm =>
    /\ pc \in {"cover", "sync", "mark", "answered"} => Nearest(nearest)
    /\ pc \in {"sync", "mark"} =>
         /\ active = nearest /\ \A r \in todo : r <= nearest
         /\ nearest \notin todo => home[nearest] = "valid" /\ Right(nearest, scope)
    /\ pc = "answered" => Right(nearest, scope)
    /\ pc = "error" => nearest \in failed \/ lost

Settled(r) == Right(r, scope) \/ flag[r] \/ snapshot[r] = "dirty"

\* While nothing else happens at all, every root of the way up is on the list
\* or has been settled.
Still ==
  /\ still /\ pc \in {"sync", "mark", "answered"} =>
       \A r \in Above(scope) \ todo : Settled(r)
  /\ pc = "answered" => todo = {}

CInv == Types /\ Recorded /\ Calm /\ Still

LEMMA InitCInv == Init => CInv
<1> SUFFICES ASSUME Init PROVE CInv
  OBVIOUS
<1>1. 1 \in Dir
  BY RootCoverAssumption DEF Dir
<1>2. Types
  <2>1. [version |-> 0, kind |-> "text"] \in [version : Int, kind : Kind]
    BY DEF Kind
  <2>2. disk \in [Dir -> [version : Int, kind : Kind]]
    BY <2>1 DEF Init
  <2>3. rows \in [Dir -> [Dir -> Int]]
    BY DEF Init, Empty, NoRow
  <2>4. scope \in [dir : Dir, file : BOOLEAN]
    BY <1>1 DEF Init
  <2> QED BY <2>2, <2>3, <2>4 DEF Init, Types
<1>3. Recorded /\ Calm /\ Still
  BY DEF Init, Recorded, Calm, Still
<1> QED BY <1>2, <1>3 DEF CInv

-----------------------------------------------------------------------------
(* Types *)

\* A scope takes in directories.
LEMMA FilesAreDirs ==
  ASSUME NEW s \in [dir : Dir, file : BOOLEAN]
  PROVE  Files(s) \subseteq Dir /\ 1..s.dir \subseteq Dir
  BY RootCoverAssumption DEF Files, Dir

LEMMA WantedType ==
  ASSUME Types, NEW k \in Dir
  PROVE  Wanted(k) \in Int
  BY DEF Types, Wanted, NoRow

LEMMA CurrentIs ==
  ASSUME Types, todo # {}
  PROVE  Current \in todo /\ Current \in Dir /\ \A r \in todo : r <= Current
  BY MaxOfDirs, RootCoverAssumption DEF Types, Current, Dir

LEMMA SyncedType ==
  ASSUME Types, NEW r \in Dir, Synced(r)
  PROVE  /\ rows' \in [Dir -> [Dir -> Int]] /\ flag' \in [Dir -> BOOLEAN]
         /\ \A d \in Dir \ {r} : rows'[d] = rows[d] /\ flag'[d] = flag[d]
         /\ \A k \in Files(scope) : rows'[r][k] = Wanted(k)
<1>1. \A k \in Dir : rows[r][k] \in Int /\ Wanted(k) \in Int
  BY WantedType DEF Types
<1>2. Files(scope) \subseteq Dir
  BY FilesAreDirs DEF Types
<1>3. [k \in Dir |-> IF k \in Files(scope) THEN Wanted(k) ELSE rows[r][k]] \in [Dir -> Int]
  BY <1>1
<1>4. Skips(Files(scope)) \in BOOLEAN
  BY DEF Skips
<1> QED BY <1>2, <1>3, <1>4 DEF Types, Synced

LEMMA TypesStep ==
  ASSUME Types, Next
  PROVE  Types'
<1> USE DEF index, local, bounds
<1>1. ASSUME NEW k \in Dir, Edit(k) PROVE Types'
  <2>1. edits + 1 \in Int
    BY DEF Types
  <2>2. \A kind \in Kind : [version |-> edits + 1, kind |-> kind] \in [version : Int, kind : Kind]
    BY <2>1
  <2>3. disk' \in [Dir -> [version : Int, kind : Kind]]
    BY <1>1, <2>2 DEF Types, Edit
  <2>4. calm' \in BOOLEAN /\ still' \in BOOLEAN
    BY <1>1 DEF Edit
  <2> QED BY <1>1, <2>1, <2>3, <2>4 DEF Types, Edit
<1>2. ASSUME NEW d \in Dir,
             MakeDir(d) \/ OpenDb(d) \/ Stamp(d) \/ Rebuild(d) \/ Snapshot(d)
               \/ Unlink(d) \/ RemoveDir(d)
      PROVE  Types'
  <2>1. UNCHANGED <<disk, local, edits>> /\ calm' \in BOOLEAN /\ still' \in BOOLEAN
    BY <1>2 DEF Types, Command, MakeDir, OpenDb, Stamp, Rebuild, Snapshot, Unlink, RemoveDir
  <2>2. home' \in [Dir -> {"none", "empty", "invalid", "valid"}]
    BY <1>2 DEF Types, MakeDir, OpenDb, Stamp, Rebuild, Snapshot, Unlink, RemoveDir
  <2>3. rows' \in [Dir -> [Dir -> Int]]
    <3>1. [k \in Dir |-> IF k >= d THEN Wanted(k) ELSE NoRow] \in [Dir -> Int]
      BY WantedType DEF NoRow
    <3>2. Empty \in [Dir -> Int]
      BY DEF Empty, NoRow
    <3> QED BY <1>2, <3>1, <3>2 DEF Types, MakeDir, OpenDb, Stamp, Rebuild, Snapshot, Unlink,
            RemoveDir
  <2>4. flag' \in [Dir -> BOOLEAN]
    BY <1>2 DEF Types, Skips, MakeDir, OpenDb, Stamp, Rebuild, Snapshot, Unlink, RemoveDir
  <2>5. snapshot' \in [Dir -> {"none", "clean", "dirty"}]
    BY <1>2 DEF Types, Report, MakeDir, OpenDb, Stamp, Rebuild, Snapshot, Unlink, RemoveDir
  <2> QED BY <2>1, <2>2, <2>3, <2>4, <2>5 DEF Types
<1>3. ASSUME NEW s \in Scopes, Ask(s) PROVE Types'
  <2>1. s \in [dir : Dir, file : BOOLEAN]
    BY RootCoverAssumption
  <2>2. scope' \in [dir : Dir, file : BOOLEAN]
    BY <1>3, <2>1 DEF Ask
  <2>3. nearest' = 0 /\ todo' = {} /\ failed' = {} /\ lost' = FALSE
    BY <1>3 DEF Ask
  <2>4. UNCHANGED <<disk, home, rows, flag, snapshot, calm, still, edits>>
    BY <1>3 DEF Ask
  <2>5. nearest' \in Int
    BY <2>3
  <2>6. todo' \subseteq Dir /\ failed' \subseteq Dir
    BY <2>3
  <2>7. lost' \in BOOLEAN
    BY <2>3
  <2> QED BY <2>2, <2>4, <2>5, <2>6, <2>7 DEF Types
<1>4. CASE Require
  <2>1. Above(scope) \in SUBSET (1..scope.dir) /\ scope.dir \in Nat
    BY RootCoverAssumption DEF Types, Above, Dir
  <2>2. Max(Above(scope)) \in 1..scope.dir
    BY <1>4, <2>1, MaxOfDirs DEF Require
  <2>3. nearest' \in Int
    BY <1>4, <2>2 DEF Require, FindIndexRoot
  <2> QED BY <1>4, <2>3 DEF Types, Require
<1>5. CASE Refuse \/ Query
  BY <1>5 DEF Types, Refuse, Query
<1>6. CASE Cover
  <2>1. todo' \subseteq Dir
    BY <1>6, FilesAreDirs DEF Types, Cover, CoveringIndexRoots, Above
  <2> QED BY <1>6, <2>1 DEF Types, Cover
<1>7. CASE Sync
  BY <1>7, CurrentIs, SyncedType DEF Types, Sync, Report
<1>8. CASE SyncRefused
  BY <1>8, CurrentIs DEF Types, SyncRefused
<1>9. CASE SyncFails
  BY <1>9, CurrentIs, SyncedType DEF Types, SyncFails
<1>10. CASE Mark
  BY <1>10, CurrentIs DEF Types, Mark, Marked, AfterMark, Recorded
<1>11. CASE MarkUnheard
  BY <1>11 DEF Types, MarkUnheard, Marked, AfterMark
<1>12. CASE MarkFails
  BY <1>12 DEF Types, MarkFails
<1> QED BY <1>1, <1>2, <1>3, <1>4, <1>5, <1>6, <1>7, <1>8, <1>9, <1>10, <1>11, <1>12 DEF Next

-----------------------------------------------------------------------------
(* Frames *)

\* A step of another command touches one root, and is noticed when that root is
\* between the nearest and the scope.
Other(d) ==
  MakeDir(d) \/ OpenDb(d) \/ Stamp(d) \/ Rebuild(d) \/ Snapshot(d) \/ Unlink(d) \/ RemoveDir(d)

LEMMA OtherStep ==
  ASSUME Types, NEW d \in Dir, Other(d)
  PROVE  /\ UNCHANGED <<disk, pc, scope, nearest, todo, active, failed, lost>>
         /\ ~still'
         /\ calm' => calm /\ d \notin nearest..scope.dir
         /\ \A r \in Dir \ {d} : home'[r] = home[r] /\ rows'[r] = rows[r]
<1> USE DEF local
<1>1. Command(d)
  BY DEF Other, MakeDir, OpenDb, Stamp, Rebuild, Snapshot, Unlink, RemoveDir
<1>2. \A r \in Dir \ {d} : home'[r] = home[r]
  BY DEF Types, Other, MakeDir, OpenDb, Stamp, Rebuild, Snapshot, Unlink, RemoveDir
<1>3. \A r \in Dir \ {d} : rows'[r] = rows[r]
  BY DEF Types, Other, MakeDir, OpenDb, Stamp, Rebuild, Snapshot, Unlink, RemoveDir
<1> QED BY <1>1, <1>2, <1>3 DEF Types, Command

\* The rows of a scope stay right while its files and that root's rows are left
\* alone.
LEMMA RightStays ==
  ASSUME Types, NEW r \in Dir, Right(r, scope), scope' = scope, rows'[r] = rows[r],
         \A k \in Files(scope) : disk'[k] = disk[k]
  PROVE  Right(r, scope)'
<1>1. \A k \in Files(scope) : Wanted(k)' = Wanted(k)
  BY DEF Wanted
<1>2. Files(scope)' = Files(scope)
  BY DEF Files
<1> QED BY <1>1, <1>2 DEF Right

\* A root stays the nearest while the directories from it down keep what they
\* have.
LEMMA NearestStays ==
  ASSUME Types, NEW r \in Dir, Nearest(r), scope' = scope,
         \A d \in r..scope.dir : Indexed(d)' = Indexed(d)
  PROVE  Nearest(r)'
<1>1. r \in Int /\ scope.dir \in Int /\ r \in 1..scope.dir
  BY DEF Types, Dir, Nearest
<1>2. ASSUME NEW d \in 1..scope.dir, Indexed(d)' PROVE d <= r
  <2>1. CASE d < r
    BY <2>1, <1>1
  <2>2. CASE ~(d < r)
    <3>1. d \in r..scope.dir
      BY <2>2, <1>1
    <3> QED BY <1>2, <3>1 DEF Nearest
  <2> QED BY <2>1, <2>2
<1>3. Indexed(r)'
  <2>1. r \in r..scope.dir
    BY <1>1
  <2> QED BY <2>1 DEF Nearest
<1> QED BY <1>1, <1>2, <1>3 DEF Nearest

\* The nearest root is the greatest of the way up.
LEMMA NearestIsMax ==
  ASSUME Types, NEW r, Nearest(r)
  PROVE  Above(scope) # {} /\ r = Max(Above(scope))
<1>1. scope.dir \in Nat /\ Above(scope) \in SUBSET (1..scope.dir)
  BY RootCoverAssumption DEF Types, Dir, Above
<1>2. r \in Above(scope) /\ \A d \in Above(scope) : d <= r
  BY DEF Nearest, Above
<1>3. r \in Int /\ \A d \in Above(scope) : d \in Int
  BY <1>1, <1>2
<1>4. \A d \in Above(scope) : r >= d
  BY <1>2, <1>3
<1> QED BY <1>1, <1>2, <1>4, MaxIs

LEMMA MaxIsNearest ==
  ASSUME Types, Above(scope) # {}
  PROVE  Nearest(Max(Above(scope)))
<1>1. scope.dir \in Nat /\ Above(scope) \in SUBSET (1..scope.dir)
  BY RootCoverAssumption DEF Types, Dir, Above
<1>2. Max(Above(scope)) \in Above(scope) /\ \A d \in Above(scope) : Max(Above(scope)) >= d
  BY <1>1, MaxOfDirs
<1>3. \A d \in Above(scope) : d \in Int
  BY <1>1
<1>4. \A d \in Above(scope) : d <= Max(Above(scope))
  BY <1>2, <1>3
<1> QED BY <1>2, <1>4 DEF Nearest, Above

-----------------------------------------------------------------------------
(* The invariant is kept *)

LEMMA EditStep ==
  ASSUME CInv, NEW k \in Dir, Edit(k)
  PROVE  Recorded' /\ Calm' /\ Still'
<1> USE DEF index, local, CInv
<1>1. UNCHANGED <<home, rows, flag, snapshot, pc, scope, nearest, todo, active, failed, lost>>
      /\ ~still' /\ (calm' => calm /\ k \notin Files(scope))
      /\ \A j \in Dir \ {k} : disk'[j] = disk[j]
  BY DEF Types, Edit
<1>2. Recorded' /\ Still'
  BY <1>1 DEF Recorded, Current, Still
<1>3. ASSUME calm' PROVE Calm'
  <2>1. \A j \in Files(scope) : disk'[j] = disk[j]
    BY <1>1, <1>3, FilesAreDirs DEF Types
  <2>2. ASSUME Nearest(nearest) PROVE nearest \in Dir /\ Nearest(nearest)'
    <3>1. nearest \in Dir
      BY <2>2, FilesAreDirs DEF Types, Nearest
    <3> QED BY <1>1, <2>2, <3>1 DEF Nearest, Indexed
  <2>3. ASSUME nearest \in Dir, Right(nearest, scope) PROVE Right(nearest, scope)'
    BY <1>1, <2>1, <2>3, RightStays
  <2> QED BY <1>1, <1>3, <2>2, <2>3 DEF Calm
<1> QED BY <1>2, <1>3 DEF Calm

LEMMA OtherKeeps ==
  ASSUME CInv, NEW d \in Dir, Other(d)
  PROVE  Recorded' /\ Calm' /\ Still'
<1> USE DEF CInv
<1>1. /\ UNCHANGED <<disk, pc, scope, nearest, todo, active, failed, lost>>
      /\ ~still'
      /\ calm' => calm /\ d \notin nearest..scope.dir
      /\ \A r \in Dir \ {d} : home'[r] = home[r] /\ rows'[r] = rows[r]
  BY OtherStep
<1>2. Recorded' /\ Still'
  BY <1>1 DEF Recorded, Current, Still
<1>3. ASSUME calm' PROVE Calm'
  <2>1. ASSUME Nearest(nearest)
        PROVE  /\ nearest \in Dir \ {d}
               /\ \A x \in nearest..scope.dir : x \in Dir \ {d}
               /\ Nearest(nearest)'
    <3>1. nearest \in 1..scope.dir /\ scope.dir \in 1..Depth /\ Depth \in Nat
      BY <2>1, RootCoverAssumption DEF Types, Nearest, Dir
    <3>2. \A x \in nearest..scope.dir : x \in 1..Depth
      BY <3>1
    <3>3. nearest \in nearest..scope.dir
      BY <3>1
    <3>4. nearest \in Dir \ {d} /\ \A x \in nearest..scope.dir : x \in Dir \ {d}
      BY <1>1, <1>3, <3>2, <3>3 DEF Dir
    <3>5. \A x \in nearest..scope.dir : Indexed(x)' = Indexed(x)
      BY <1>1, <3>4 DEF Indexed
    <3> QED BY <1>1, <2>1, <3>4, <3>5, NearestStays
  <2>2. ASSUME nearest \in Dir \ {d}, Right(nearest, scope) PROVE Right(nearest, scope)'
    BY <1>1, <2>2, RightStays
  <2> QED BY <1>1, <1>3, <2>1, <2>2 DEF Calm
<1> QED BY <1>2, <1>3 DEF Calm

LEMMA BeginStep ==
  ASSUME CInv, (\E s \in Scopes : Ask(s)) \/ Require \/ Refuse
  PROVE  Recorded' /\ Calm' /\ Still'
<1> USE DEF index, local, CInv
<1>1. CASE \E s \in Scopes : Ask(s)
  BY <1>1 DEF Ask, Recorded, Calm, Still
<1>2. CASE Refuse
  BY <1>2 DEF Refuse, Recorded, Calm, Still
<1>3. CASE Require
  <2>1. Nearest(nearest')
    BY <1>3, MaxIsNearest DEF Require, FindIndexRoot
  <2>2. Nearest(nearest)'
    BY <1>3, <2>1 DEF Require, Nearest, Indexed
  <2> QED BY <1>3, <2>2 DEF Require, Recorded, Calm, Still
<1> QED BY <1>1, <1>2, <1>3

LEMMA CoverStep ==
  ASSUME CInv, Cover
  PROVE  Recorded' /\ Calm' /\ Still'
<1> USE DEF index, local, CInv
<1>1. /\ UNCHANGED <<disk, home, rows, flag, snapshot, scope, nearest, failed, lost, calm, still>>
      /\ pc = "cover" /\ pc' = "sync" /\ todo' = Above(scope)
      /\ active' = IF Above(scope) = {} THEN 0 ELSE Max(Above(scope))
  BY DEF Cover, CoveringIndexRoots
<1>2. Recorded'
  BY <1>1 DEF Recorded
<1>3. Still'
  <2>1. Above(scope)' = Above(scope)
    BY <1>1 DEF Above, Indexed
  <2> QED BY <1>1, <2>1 DEF Still
<1>4. ASSUME calm PROVE Calm'
  <2>1. Nearest(nearest)
    BY <1>1, <1>4 DEF Calm
  <2>2. Nearest(nearest)'
    BY <1>1, <2>1 DEF Nearest, Indexed
  <2>3. active' = nearest
    BY <1>1, <2>1, NearestIsMax
  <2>4. nearest \in todo' /\ \A r \in todo' : r <= nearest
    BY <1>1, <2>1 DEF Nearest, Above
  <2> QED BY <1>1, <2>2, <2>3, <2>4 DEF Calm
<1> QED BY <1>1, <1>2, <1>3, <1>4 DEF Calm

\* A root that a reconcile went through is right for the scope.
LEMMA SyncedIsRight ==
  ASSUME Types, NEW r \in Dir, Synced(r), UNCHANGED <<disk, scope>>
  PROVE  Right(r, scope)'
<1>1. Files(scope)' = Files(scope)
  BY DEF Files
<1>2. \A k \in Files(scope) : Wanted(k)' = Wanted(k)
  BY DEF Wanted
<1> QED BY <1>1, <1>2, SyncedType DEF Right

LEMMA SyncStep ==
  ASSUME CInv, Sync
  PROVE  Recorded' /\ Calm' /\ Still'
<1> USE DEF index, local, CInv
<1>0. PICK c \in todo : c = Current
  BY CurrentIs DEF Sync
<1>1. /\ UNCHANGED <<disk, home, scope, nearest, active, failed, lost, calm, still>>
      /\ pc = "sync" /\ pc' = "sync" /\ todo # {} /\ todo' = todo \ {c}
      /\ Synced(c) /\ home[c] = "valid"
  BY <1>0 DEF Sync
<1>2. /\ c \in Dir
      /\ \A d \in Dir \ {c} : rows'[d] = rows[d] /\ flag'[d] = flag[d]
                                     /\ snapshot'[d] = snapshot[d]
  BY <1>0, <1>1, SyncedType DEF Types, Sync
<1>3. Right(c, scope)' /\ \A r \in Dir \ {c} : Right(r, scope) => Right(r, scope)'
  BY <1>1, <1>2, SyncedIsRight, RightStays
<1>4. Recorded'
  BY <1>1 DEF Recorded
<1>5. Still'
  <2>1. Above(scope)' = Above(scope) /\ Above(scope) \subseteq Dir
    BY <1>1, FilesAreDirs DEF Types, Above, Indexed
  <2>2. ASSUME still, NEW r \in Above(scope) \ todo' PROVE Settled(r)'
    <3>1. CASE r = c
      BY <1>3, <3>1 DEF Settled
    <3>2. CASE r # c
      BY <1>1, <1>2, <1>3, <2>1, <2>2, <3>2 DEF Still, Settled
    <3> QED BY <3>1, <3>2
  <2> QED BY <1>1, <2>1, <2>2 DEF Still
<1>6. ASSUME calm PROVE Calm'
  <2>1. Nearest(nearest) /\ nearest \in Dir
    BY <1>1, <1>6, FilesAreDirs DEF Calm, Types, Nearest
  <2>2. Nearest(nearest)'
    BY <1>1, <2>1 DEF Nearest, Indexed
  <2>3. ASSUME nearest \notin todo'
        PROVE  home'[nearest] = "valid" /\ Right(nearest, scope)'
    <3>1. CASE nearest = c
      BY <1>1, <1>3, <3>1
    <3>2. CASE nearest # c
      BY <1>1, <1>3, <1>6, <2>1, <2>3, <3>2 DEF Calm
    <3> QED BY <3>1, <3>2
  <2> QED BY <1>1, <1>6, <2>2, <2>3 DEF Calm
<1> QED BY <1>1, <1>4, <1>5, <1>6 DEF Calm

LEMMA FailStep ==
  ASSUME CInv, SyncRefused \/ SyncFails
  PROVE  Recorded' /\ Calm' /\ Still'
<1> USE DEF index, local, CInv
<1>0. PICK c \in todo : c = Current
  BY CurrentIs DEF SyncRefused, SyncFails
<1>1. /\ UNCHANGED <<disk, home, snapshot, scope, nearest, todo, active, lost, calm, still>>
      /\ pc = "sync" /\ pc' = "mark" /\ failed' = failed \cup {c}
  BY <1>0 DEF SyncRefused, SyncFails
<1>2. /\ c \in Dir
      /\ \A d \in Dir \ {c} : rows'[d] = rows[d] /\ flag'[d] = flag[d]
  BY <1>0, SyncedType DEF Types, SyncRefused, SyncFails
<1>3. \A r \in Dir \ {c} : Right(r, scope) => Right(r, scope)'
  BY <1>1, <1>2, RightStays
<1>4. Recorded'
  BY <1>0, <1>1 DEF Recorded, Current
<1>5. Still'
  <2>1. Above(scope)' = Above(scope) /\ Above(scope) \subseteq Dir
    BY <1>1, FilesAreDirs DEF Types, Above, Indexed
  <2>2. ASSUME still, NEW r \in Above(scope) \ todo PROVE Settled(r)'
    BY <1>0, <1>1, <1>2, <1>3, <2>1, <2>2 DEF Still, Settled
  <2> QED BY <1>1, <2>1, <2>2 DEF Still
<1>6. ASSUME calm PROVE Calm'
  <2>1. Nearest(nearest) /\ nearest \in Dir
    BY <1>1, <1>6, FilesAreDirs DEF Calm, Types, Nearest
  <2>2. Nearest(nearest)'
    BY <1>1, <2>1 DEF Nearest, Indexed
  <2>3. ASSUME nearest \notin todo
        PROVE  home[nearest] = "valid" /\ Right(nearest, scope)'
    BY <1>0, <1>1, <1>3, <1>6, <2>1, <2>3 DEF Calm
  <2> QED BY <1>1, <1>6, <2>2, <2>3 DEF Calm
<1> QED BY <1>1, <1>4, <1>5, <1>6 DEF Calm

LEMMA MarkStep ==
  ASSUME CInv, Mark \/ MarkUnheard
  PROVE  Recorded' /\ Calm' /\ Still'
<1> USE DEF index, local, CInv
<1>0. PICK c \in todo : c = Current /\ c \in failed
  BY CurrentIs DEF Mark, MarkUnheard, Recorded
<1>1. /\ UNCHANGED <<disk, rows, scope, nearest, active, failed, lost, calm, still>>
      /\ pc = "mark"
      /\ \/ c = active /\ pc' = "error" /\ todo' = todo
         \/ c # active /\ pc' = "sync" /\ todo' = todo \ {c}
  BY <1>0 DEF Mark, MarkUnheard, AfterMark
<1>2. /\ c \in Dir /\ snapshot'[c] = "dirty"
      /\ \A d \in Dir \ {c} : /\ home'[d] = home[d] /\ flag'[d] = flag[d]
                              /\ snapshot'[d] = snapshot[d]
  BY <1>0 DEF Types, Mark, MarkUnheard, Marked
<1>3. \A r \in Dir : Right(r, scope) => Right(r, scope)'
  BY <1>1, RightStays
<1>4. Recorded'
  BY <1>1 DEF Recorded
<1>5. Still'
  <2>1. Above(scope)' \subseteq Above(scope) \cup {c} /\ Above(scope)' \subseteq Dir
    BY <1>1, <1>2, FilesAreDirs DEF Types, Above, Indexed
  <2>2. ASSUME still, NEW r \in Above(scope)' \ todo', pc' = "sync" PROVE Settled(r)'
    <3>1. CASE r = c
      BY <1>2, <3>1 DEF Settled
    <3>2. CASE r # c
      BY <1>1, <1>2, <1>3, <2>1, <2>2, <3>2 DEF Still, Settled
    <3> QED BY <3>1, <3>2
  <2> QED BY <1>1, <2>2 DEF Still
<1>6. ASSUME calm PROVE Calm'
  <2>1. /\ Nearest(nearest) /\ nearest \in Dir /\ active = nearest
        /\ \A r \in todo : r <= nearest
    BY <1>1, <1>6, FilesAreDirs DEF Calm, Types, Nearest
  <2>2. CASE c = nearest
    BY <1>0, <1>1, <2>1, <2>2 DEF Calm
  <2>3. CASE c # nearest
    <3>1. pc' = "sync" /\ todo' = todo \ {c}
      BY <1>1, <2>1, <2>3
    <3>2. /\ nearest \in 1..scope.dir /\ scope.dir \in 1..Depth /\ Depth \in Nat
          /\ c <= nearest /\ c \in Int
      BY <1>0, <1>2, <2>1, RootCoverAssumption DEF Types, Nearest, Dir
    <3>3. \A x \in nearest..scope.dir : x \in 1..Depth /\ x # c
      BY <2>3, <3>2
    <3>4. \A x \in nearest..scope.dir : Indexed(x)' = Indexed(x)
      BY <1>2, <3>3 DEF Indexed, Dir
    <3>5. Nearest(nearest)'
      BY <1>1, <2>1, <3>4, NearestStays
    <3>6. home'[nearest] = home[nearest]
      BY <1>2, <2>1, <2>3
    <3> QED BY <1>1, <1>3, <1>6, <2>1, <2>3, <3>1, <3>5, <3>6 DEF Calm
  <2> QED BY <2>2, <2>3
<1> QED BY <1>1, <1>4, <1>5, <1>6 DEF Calm

LEMMA EndStep ==
  ASSUME CInv, MarkFails \/ Query
  PROVE  Recorded' /\ Calm' /\ Still'
<1> USE DEF index, local, CInv
<1>1. UNCHANGED <<disk, home, rows, flag, snapshot, scope, nearest, todo, active, failed, calm,
                  still>>
  BY DEF MarkFails, Query
<1>2. Right(nearest, scope)' = Right(nearest, scope) /\ Nearest(nearest)' = Nearest(nearest)
  BY <1>1 DEF Right, Files, Wanted, Nearest, Indexed
<1>3. CASE MarkFails
  BY <1>1, <1>3 DEF MarkFails, Recorded, Calm, Still
<1>4. CASE Query
  <2>1. pc = "sync" /\ todo = {} /\ lost' = lost
        /\ pc' = IF home[nearest] = "valid" THEN "answered" ELSE "error"
    BY <1>4 DEF Query
  <2>2. Recorded'
    BY <2>1 DEF Recorded
  <2>3. Calm'
    BY <1>1, <1>2, <2>1 DEF Calm
  <2>4. Above(scope)' = Above(scope) /\ \A r \in Above(scope) : Settled(r)' = Settled(r)
    BY <1>1 DEF Above, Indexed, Settled, Right, Files, Wanted
  <2>5. Still'
    BY <1>1, <2>1, <2>4 DEF Still
  <2> QED BY <2>2, <2>3, <2>5
<1> QED BY <1>3, <1>4

LEMMA CInvStep == CInv /\ [Next]_vars => CInv'
<1> SUFFICES ASSUME CInv, [Next]_vars PROVE CInv'
  OBVIOUS
<1>1. CASE Next
  <2>1. Types'
    BY <1>1, TypesStep DEF CInv
  <2>2. Recorded' /\ Calm' /\ Still'
    <3>1. ASSUME NEW k \in Dir, Edit(k) PROVE Recorded' /\ Calm' /\ Still'
      BY <3>1, EditStep
    <3>2. ASSUME NEW d \in Dir, Other(d) PROVE Recorded' /\ Calm' /\ Still'
      BY <3>2, OtherKeeps
    <3>3. CASE (\E s \in Scopes : Ask(s)) \/ Require \/ Refuse
      BY <3>3, BeginStep
    <3>4. CASE Cover
      BY <3>4, CoverStep
    <3>5. CASE Sync
      BY <3>5, SyncStep
    <3>6. CASE SyncRefused \/ SyncFails
      BY <3>6, FailStep
    <3>7. CASE Mark \/ MarkUnheard
      BY <3>7, MarkStep
    <3>8. CASE MarkFails \/ Query
      BY <3>8, EndStep
    <3> QED BY <1>1, <3>1, <3>2, <3>3, <3>4, <3>5, <3>6, <3>7, <3>8 DEF Next, Other
  <2> QED BY <2>1, <2>2 DEF CInv
<1>2. CASE UNCHANGED vars
  <2>1. UNCHANGED <<disk, home, rows, flag, snapshot, pc, scope, nearest, todo, active, failed,
                    lost, calm, still, edits>>
    BY <1>2 DEF vars, index, local, bounds
  <2>2. Types' /\ Recorded'
    BY <2>1 DEF CInv, Types, Recorded, Current
  <2>3. Calm' /\ Still'
    BY <2>1 DEF CInv, Calm, Still, Nearest, Indexed, Above, Settled, Right, Files, Wanted
  <2> QED BY <2>2, <2>3 DEF CInv
<1> QED BY <1>1, <1>2

LEMMA Invariance == Spec => []CInv
  BY InitCInv, CInvStep, PTL DEF Spec

-----------------------------------------------------------------------------
(* The theorems *)

\* A search that nobody disturbs answers from the nearest root above its scope,
\* and that root's rows of the scope are the disk's: at any depth of nesting,
\* whatever happens to the roots above.
THEOREM NearestAnswers == Spec => []NearestIsCurrent
<1>1. CInv => NearestIsCurrent
  BY NearestIsMax DEF CInv, Calm, NearestIsCurrent
<1> QED BY Invariance, <1>1, PTL

\* It fails only when the nearest root failed, or when an outer root's .zg
\* disappeared before its failure could be written down.
THEOREM OuterRootsAreTolerated == Spec => []OuterRootsDoNotFail
<1>1. CInv => OuterRootsDoNotFail
  BY DEF CInv, Calm, OuterRootsDoNotFail
<1> QED BY Invariance, <1>1, PTL

\* When nothing else happened at all, every root of the way up is right for the
\* scope or marked dirty.
THEOREM RootsAreSettled == Spec => []CoveringRootsSettled
<1>1. CInv => CoveringRootsSettled
  BY DEF CInv, Still, Settled, CoveringRootsSettled
<1> QED BY Invariance, <1>1, PTL
=============================================================================
