-------------------------- MODULE ChunkStore_proofs --------------------------
(***************************************************************************)
(* Proofs about ChunkStore, for any number of paths, texts, chunks per     *)
(* document and rowids: the reference counts, how the rows of the tables   *)
(* hang together, and that the tables implement DocIndex: read back as     *)
(* documents and embedded texts, what a reader sees changes only at a      *)
(* commit, and then by one whole Reconcile or Rebuild.                     *)
(***************************************************************************)
EXTENDS ChunkStore, FiniteSetTheorems, TLAPS

-----------------------------------------------------------------------------
(* The inductive invariant *)

\* What the reference counts mean while a document is half written: the old
\* version's references have left the table but not yet the count (old), the
\* new version's are in the table but not yet in the count (new).  A rowid
\* without a row takes no part.
Balanced(keyOf, count, rs, old, new) ==
  /\ IsFiniteSet(rs)
  /\ \A id \in Id : count[id] = Cardinality(RefsTo(id, rs)) + old[id] - new[id]
  /\ \A id \in Id : keyOf[id] = NoRow =>
                      RefsTo(id, rs) = {} /\ old[id] = 0 /\ new[id] = 0

\* The chunks of the document being written go in by increasing index, so the
\* next reference is always a new row.
Writing ==
  pc = "doc" => /\ cur \in Path
                /\ todo[cur] \in Doc
                /\ \A r \in refs : r.file = cur => r.index < pos

IInv ==
  /\ TypeOK
  /\ Balanced(sharedKey, refCount, refs, oldCounts, newCounts)
  /\ Balanced(saved.sharedKey, saved.refCount, saved.refs, Zero, Zero)
  /\ pc # "doc" => oldCounts = Zero /\ newCounts = Zero
  /\ Writing

-----------------------------------------------------------------------------
(* Counting references *)

\* The references to a rowid split into those of one file and the rest.
LEMMA CountSplit ==
  ASSUME NEW rs, IsFiniteSet(rs), NEW p, NEW id
  PROVE  /\ IsFiniteSet({r \in rs : r.file # p})
         /\ Cardinality({r \in RefsTo(id, rs) : r.file = p}) \in Nat
         /\ Cardinality(RefsTo(id, {r \in rs : r.file # p})) \in Nat
         /\ Cardinality(RefsTo(id, rs))
              = Cardinality({r \in RefsTo(id, rs) : r.file = p})
                  + Cardinality(RefsTo(id, {r \in rs : r.file # p}))
<1> DEFINE mine == {r \in RefsTo(id, rs) : r.file = p}
           rest == RefsTo(id, {r \in rs : r.file # p})
<1>1. /\ IsFiniteSet(mine) /\ IsFiniteSet(rest)
      /\ IsFiniteSet({r \in rs : r.file # p})
  <2>1. /\ mine \in SUBSET rs /\ rest \in SUBSET rs
        /\ {r \in rs : r.file # p} \in SUBSET rs
    BY DEF RefsTo
  <2> QED BY <2>1, FS_Subset
<1>2. Cardinality(mine) \in Nat /\ Cardinality(rest) \in Nat
  BY <1>1, FS_CardinalityType
<1>3. /\ RefsTo(id, rs) = mine \cup rest
      /\ mine \cap rest = {}
  BY DEF RefsTo
<1>4. Cardinality(mine \cap rest) = 0
  BY <1>3, FS_EmptySet
<1>5. Cardinality(RefsTo(id, rs)) = Cardinality(mine) + Cardinality(rest)
  <2> HIDE DEF mine, rest
  <2>1. Cardinality(mine \cup rest)
          = Cardinality(mine) + Cardinality(rest) - Cardinality(mine \cap rest)
    BY <1>1, FS_Union
  <2> QED BY <1>2, <1>3, <1>4, <2>1
<1> QED BY <1>1, <1>2, <1>5

\* A reference that was not there adds one to its rowid's count only.
LEMMA CountInsert ==
  ASSUME NEW rs, IsFiniteSet(rs), NEW r, r \notin rs, NEW id
  PROVE  /\ IsFiniteSet(rs \cup {r})
         /\ Cardinality(RefsTo(id, rs)) \in Nat
         /\ Cardinality(RefsTo(id, rs \cup {r}))
              = Cardinality(RefsTo(id, rs)) + (IF r.shared = id THEN 1 ELSE 0)
<1>1. IsFiniteSet(rs \cup {r})
  BY FS_AddElement
<1>2. RefsTo(id, rs) \in SUBSET rs
  BY DEF RefsTo
<1>3. IsFiniteSet(RefsTo(id, rs)) /\ Cardinality(RefsTo(id, rs)) \in Nat
  BY <1>2, FS_Subset, FS_CardinalityType
<1>4. CASE r.shared = id
  <2>1. /\ RefsTo(id, rs \cup {r}) = RefsTo(id, rs) \cup {r}
        /\ r \notin RefsTo(id, rs)
    BY <1>4 DEF RefsTo
  <2> QED BY <2>1, <1>1, <1>3, <1>4, FS_AddElement
<1>5. CASE r.shared # id
  <2>1. RefsTo(id, rs \cup {r}) = RefsTo(id, rs)
    BY <1>5 DEF RefsTo
  <2> QED BY <2>1, <1>1, <1>3, <1>5
<1> QED BY <1>4, <1>5

\* Counts are natural numbers.
LEMMA CountIsNat ==
  ASSUME NEW rs, IsFiniteSet(rs), NEW id
  PROVE  Cardinality(RefsTo(id, rs)) \in Nat
<1>1. RefsTo(id, rs) \in SUBSET rs
  BY DEF RefsTo
<1> QED BY <1>1, FS_Subset, FS_CardinalityType

\* Zero is a function to Nat, so counts with it are the plain ones.
LEMMA ZeroIsZero ==
  /\ Zero \in [Id -> Nat]
  /\ \A id \in Id : Zero[id] = 0
BY DEF Zero

\* Counting the references of one file gives natural numbers.
LEMMA CountsType ==
  ASSUME IsFiniteSet(refs), NEW p
  PROVE  CountsOf(p) \in [Id -> Nat]
BY CountSplit DEF CountsOf

-----------------------------------------------------------------------------
\* Empty tables are balanced: a new root, and a rebuild after its six DELETEs.
LEMMA EmptyBalanced == Balanced(Empty, Zero, {}, Zero, Zero)
<1>1. IsFiniteSet({}) /\ Cardinality({}) = 0
  BY FS_EmptySet
<1>2. \A id \in Id : RefsTo(id, {}) = {}
  BY DEF RefsTo
<1>3. \A id \in Id : Zero[id] = Cardinality(RefsTo(id, {})) + Zero[id] - Zero[id]
  BY <1>1, <1>2, ZeroIsZero
<1> QED BY <1>1, <1>2, <1>3, ZeroIsZero DEF Balanced

LEMMA InitIInv == Init => IInv
<1> SUFFICES ASSUME Init PROVE IInv
  OBVIOUS
<1>1. TypeOK
  <2>1. TableTypes(View)
    BY ZeroIsZero DEF Init, TableTypes, View, Empty
  <2>2. saved = View
    BY DEF Init
  <2>3. TableTypes(saved)
    BY <2>1, <2>2
  <2>4. saved = [files |-> saved.files, refs |-> saved.refs, fts |-> saved.fts,
                 sharedKey |-> saved.sharedKey, refCount |-> saved.refCount,
                 vecChunks |-> saved.vecChunks, vecIndex |-> saved.vecIndex]
    BY <2>2 DEF View
  <2>5. /\ embeds \in [Key -> Nat] /\ todo \in [Path -> Doc \cup {NoDoc}]
        /\ pos \in Nat \ {0}
    BY DEF Init
  <2> QED BY <2>1, <2>3, <2>4, <2>5, ZeroIsZero DEF Init, TypeOK
<1>2. Balanced(Empty, Zero, {}, Zero, Zero)
  BY EmptyBalanced
<1>3. /\ Balanced(sharedKey, refCount, refs, oldCounts, newCounts)
      /\ Balanced(saved.sharedKey, saved.refCount, saved.refs, Zero, Zero)
  BY <1>2 DEF Init, View
<1> QED BY <1>1, <1>3 DEF Init, IInv, Writing

-----------------------------------------------------------------------------
(* Each action preserves the invariant *)

\* A document has at most MaxChunks chunks, their texts are texts, and it is
\* not the absent document.
LEMMA DocShape ==
  ASSUME NEW d \in Doc
  PROVE  /\ DOMAIN d \in SUBSET (1..MaxChunks)
         /\ \A i \in DOMAIN d : d[i] \in Key
         /\ KeysOf(d) \in SUBSET Key
         /\ d # NoDoc
<1>1. PICK n \in 1..MaxChunks : d \in [1..n -> Key]
  BY DEF Doc
<1>2. 1..n \subseteq 1..MaxChunks
  BY ChunkStoreAssumption
<1> QED BY <1>1, <1>2, ChunkStoreAssumption DEF KeysOf

\* Preparing embeds texts, each once.
LEMMA PrepareType ==
  ASSUME NEW batch \in [Path -> Doc \cup {NoDoc}], NEW v \in BOOLEAN, NEW keyOf,
         Prepare(batch, v, keyOf)
  PROVE  prepared' \in SUBSET Key /\ embeds' \in [Key -> Nat]
<1>1. \A p \in Path : batch[p] # NoDoc => KeysOf(batch[p]) \in SUBSET Key
  BY DocShape
<1> QED BY <1>1 DEF Prepare

LEMMA BeginReconcileIInv ==
  ASSUME IInv, NEW batch \in [Path -> Doc \cup {NoDoc}], NEW drop \in SUBSET Path,
         NEW v \in BOOLEAN, BeginReconcile(batch, drop, v)
  PROVE  IInv'
<1>1. UNCHANGED <<files, refs, fts, sharedKey, refCount, vecChunks, vecIndex,
                  saved, cur, pos, oldCounts, newCounts>>
  BY DEF BeginReconcile, tables, doing
<1>2. prepared' \in SUBSET Key /\ embeds' \in [Key -> Nat]
  BY PrepareType DEF BeginReconcile
<1>3. TypeOK'
  BY <1>1, <1>2 DEF IInv, TypeOK, TableTypes, View, BeginReconcile
<1>4. /\ Balanced(sharedKey, refCount, refs, oldCounts, newCounts)'
      /\ Balanced(saved.sharedKey, saved.refCount, saved.refs, Zero, Zero)'
  BY <1>1 DEF IInv, Balanced, RefsTo, Zero
<1>5. pc = "idle" /\ pc' = "open"
  BY DEF BeginReconcile
<1> QED BY <1>1, <1>3, <1>4, <1>5 DEF IInv, Writing, Zero

LEMMA BeginRebuildIInv ==
  ASSUME IInv, NEW batch \in [Path -> Doc \cup {NoDoc}], NEW v \in BOOLEAN,
         BeginRebuild(batch, v)
  PROVE  IInv'
<1>1. UNCHANGED <<saved, cur, pos, oldCounts, newCounts>>
  BY DEF BeginRebuild, doing
<1>2. prepared' \in SUBSET Key /\ embeds' \in [Key -> Nat]
  BY PrepareType DEF BeginRebuild
<1>3. /\ files' = {} /\ refs' = {} /\ fts' = {}
      /\ sharedKey' = Empty /\ refCount' = Zero
      /\ vecChunks' = Empty /\ vecIndex' = Empty
      /\ pc = "idle" /\ pc' = "open"
  BY DEF BeginRebuild
<1>4. oldCounts = Zero /\ newCounts = Zero
  BY <1>3 DEF IInv
<1>5. TypeOK'
  <2>1. Empty \in [Id -> Key \cup {NoRow}] /\ Zero \in [Id -> Int]
    BY DEF Empty, Zero
  <2>2. TableTypes(View)'
    BY <1>3, <2>1 DEF TableTypes, View
  <2>3. /\ kind' = "rebuild" /\ vectors' = v /\ todo' = batch /\ gone' = {}
    BY DEF BeginRebuild
  <2>4. TableTypes(saved)'
    BY <1>1 DEF IInv, TypeOK, TableTypes
  <2> QED BY <1>1, <1>2, <1>3, <2>2, <2>3, <2>4 DEF IInv, TypeOK
<1>6. Balanced(sharedKey, refCount, refs, oldCounts, newCounts)'
  BY <1>1, <1>3, <1>4, EmptyBalanced
<1>7. Balanced(saved.sharedKey, saved.refCount, saved.refs, Zero, Zero)'
  BY <1>1 DEF IInv, Balanced, RefsTo, Zero
<1> QED BY <1>1, <1>3, <1>4, <1>5, <1>6, <1>7 DEF IInv, Writing, Zero

LEMMA OpenDocumentIInv ==
  ASSUME IInv, NEW p \in Path, OpenDocument(p)
  PROVE  IInv'
<1>1. UNCHANGED <<sharedKey, refCount, vecChunks, vecIndex, saved, kind, vectors,
                  todo, gone, prepared, embeds>>
  BY DEF OpenDocument, work
<1>2. /\ pc = "open" /\ pc' = "doc" /\ cur' = p /\ pos' = 1
      /\ oldCounts' = CountsOf(p) /\ newCounts' = Zero
      /\ refs' = {r \in refs : r.file # p}
      /\ fts' = {row \in fts : row.file # p}
      /\ files' = files \cup {p}
      /\ todo[p] # NoDoc
  BY DEF OpenDocument, DeleteFileRows, Pending
<1>3. IsFiniteSet(refs) /\ oldCounts = Zero /\ newCounts = Zero
  BY <1>2 DEF IInv, Balanced
<1>4. oldCounts' \in [Id -> Nat] /\ newCounts' \in [Id -> Nat]
  BY <1>2, <1>3, CountsType, ZeroIsZero
<1>5. TypeOK'
  <2>1. TableTypes(View)'
    BY <1>1, <1>2 DEF IInv, TypeOK, TableTypes, View
  <2>2. TableTypes(saved)'
    BY <1>1 DEF IInv, TypeOK, TableTypes
  <2> QED BY <1>1, <1>2, <1>4, <2>1, <2>2 DEF IInv, TypeOK
<1>6. Balanced(sharedKey, refCount, refs, oldCounts, newCounts)'
  <2>1. IsFiniteSet(refs')
    BY <1>2, <1>3, CountSplit
  <2>2. ASSUME NEW id \in Id
        PROVE  refCount[id] = Cardinality(RefsTo(id, refs')) + CountsOf(p)[id] - Zero[id]
    <3>1. refCount[id] = Cardinality(RefsTo(id, refs)) + Zero[id] - Zero[id]
      BY <1>3 DEF IInv, Balanced
    <3>2. CountsOf(p)[id] = Cardinality({r \in RefsTo(id, refs) : r.file = p})
      BY DEF CountsOf
    <3>3. /\ Cardinality({r \in RefsTo(id, refs) : r.file = p}) \in Nat
          /\ Cardinality(RefsTo(id, refs')) \in Nat
          /\ Cardinality(RefsTo(id, refs))
               = Cardinality({r \in RefsTo(id, refs) : r.file = p})
                   + Cardinality(RefsTo(id, refs'))
      <4>1. RefsTo(id, refs') = RefsTo(id, {r \in refs : r.file # p})
        BY <1>2
      <4>2. /\ Cardinality({r \in RefsTo(id, refs) : r.file = p}) \in Nat
            /\ Cardinality(RefsTo(id, {r \in refs : r.file # p})) \in Nat
            /\ Cardinality(RefsTo(id, refs))
                 = Cardinality({r \in RefsTo(id, refs) : r.file = p})
                     + Cardinality(RefsTo(id, {r \in refs : r.file # p}))
        BY <1>3, CountSplit
      <4> QED BY <4>1, <4>2
    <3> QED BY <3>1, <3>2, <3>3, ZeroIsZero
  <2>3. ASSUME NEW id \in Id, sharedKey[id] = NoRow
        PROVE  RefsTo(id, refs') = {} /\ CountsOf(p)[id] = 0 /\ Zero[id] = 0
    <3>1. RefsTo(id, refs) = {}
      BY <2>3 DEF IInv, Balanced
    <3>2. RefsTo(id, refs') = {} /\ {r \in RefsTo(id, refs) : r.file = p} = {}
      BY <3>1, <1>2 DEF RefsTo
    <3> QED BY <3>2, FS_EmptySet, ZeroIsZero DEF CountsOf
  <2> QED BY <1>1, <1>2, <2>1, <2>2, <2>3 DEF Balanced
<1>7. Balanced(saved.sharedKey, saved.refCount, saved.refs, Zero, Zero)'
  BY <1>1 DEF IInv, Balanced, RefsTo, Zero
<1>8. Writing'
  BY <1>1, <1>2 DEF IInv, TypeOK, Writing
<1> QED BY <1>2, <1>5, <1>6, <1>7, <1>8 DEF IInv

\* A fresh rowid has no row, so nothing refers to it yet.
LEMMA NextIdIsFree ==
  ASSUME NEW id, NextId(id)
  PROVE  id \in Id /\ sharedKey[id] = NoRow
<1>1. id \in Id /\ id \in Int
  BY ChunkStoreAssumption DEF NextId, Id
<1> QED BY <1>1 DEF NextId

LEMMA ResolveKeyIInv ==
  ASSUME IInv, NEW i \in 1..MaxChunks, NEW id \in Id, ResolveKey(i, id)
  PROVE  IInv'
<1> DEFINE key == todo[cur][i]
<1>1. /\ UNCHANGED <<files, refs, fts, saved, pc, cur, pos, oldCounts, newCounts,
                     kind, vectors, todo, gone, prepared>>
      /\ pc = "doc" /\ i \in DOMAIN todo[cur]
      /\ NextId(id)
      /\ sharedKey' = [sharedKey EXCEPT ![id] = key]
      /\ refCount' = [refCount EXCEPT ![id] = 0]
      /\ vecChunks' \in {vecChunks, [vecChunks EXCEPT ![id] = key]}
      /\ vecIndex' \in {vecIndex, [vecIndex EXCEPT ![id] = key]}
      /\ embeds' \in {embeds, [embeds EXCEPT ![key] = @ + 1]}
  BY DEF ResolveKey, doing, Unresolved
<1>2. key \in Key
  BY <1>1, DocShape DEF IInv, Writing
<1>3. sharedKey[id] = NoRow
  BY <1>1, NextIdIsFree
<1> HIDE DEF key
<1>4. TypeOK'
  <2>1. TableTypes(View)'
    BY <1>1, <1>2 DEF IInv, TypeOK, TableTypes, View
  <2>2. TableTypes(saved)'
    BY <1>1 DEF IInv, TypeOK, TableTypes
  <2>3. embeds' \in [Key -> Nat]
    BY <1>1, <1>2 DEF IInv, TypeOK
  <2> QED BY <1>1, <2>1, <2>2, <2>3 DEF IInv, TypeOK
<1>5. Balanced(sharedKey, refCount, refs, oldCounts, newCounts)'
  <2>1. RefsTo(id, refs) = {} /\ oldCounts[id] = 0 /\ newCounts[id] = 0
    BY <1>3 DEF IInv, Balanced
  <2>2. Cardinality(RefsTo(id, refs)) = 0
    BY <2>1, FS_EmptySet
  <2>3. /\ refCount'[id] = 0
        /\ \A other \in Id \ {id} : /\ refCount'[other] = refCount[other]
                                     /\ sharedKey'[other] = sharedKey[other]
    BY <1>1 DEF IInv, TypeOK, TableTypes, View
  <2>4. ASSUME NEW o \in Id
        PROVE  refCount'[o] = Cardinality(RefsTo(o, refs)) + oldCounts[o] - newCounts[o]
    <3>1. CASE o = id
      BY <2>1, <2>2, <2>3, <3>1
    <3>2. CASE o # id
      BY <2>3, <3>2 DEF IInv, Balanced
    <3> QED BY <3>1, <3>2
  <2>5. \A o \in Id : sharedKey'[o] = NoRow =>
                        RefsTo(o, refs) = {} /\ oldCounts[o] = 0 /\ newCounts[o] = 0
    BY <2>1, <2>3 DEF IInv, Balanced
  <2>6. IsFiniteSet(refs)
    BY DEF IInv, Balanced
  <2> QED BY <1>1, <2>4, <2>5, <2>6 DEF Balanced, RefsTo
<1>6. Balanced(saved.sharedKey, saved.refCount, saved.refs, Zero, Zero)'
  BY <1>1 DEF IInv, Balanced, RefsTo, Zero
<1> QED BY <1>1, <1>4, <1>5, <1>6 DEF IInv, Writing

\* Once every text of the document is resolved, each has its row.
LEMMA IdOfFindsRow ==
  ASSUME IInv, pc = "doc", Unresolved = {}, NEW i \in DOMAIN todo[cur]
  PROVE  /\ IdOf(todo[cur][i]) \in Id
         /\ sharedKey[IdOf(todo[cur][i])] = todo[cur][i]
         /\ todo[cur][i] \in Key
<1>1. todo[cur][i] \in Key
  BY DocShape DEF IInv, Writing
<1>2. todo[cur][i] \in Keys(sharedKey)
  BY DEF Unresolved
<1>3. \E id \in Id : sharedKey[id] = todo[cur][i]
  BY <1>2 DEF Keys
<1> QED BY <1>1, <1>3 DEF IdOf

LEMMA InsertChunkIInv ==
  ASSUME IInv, InsertChunk
  PROVE  IInv'
<1> DEFINE key == todo[cur][pos]
           id == IdOf(key)
           new == [file |-> cur, index |-> pos, shared |-> id]
           row == [file |-> cur, index |-> pos, text |-> key]
<1>1. /\ UNCHANGED <<files, sharedKey, refCount, vecChunks, vecIndex, saved, pc,
                     kind, vectors, todo, gone, prepared, embeds, cur, oldCounts>>
      /\ pc = "doc" /\ Unresolved = {} /\ pos \in DOMAIN todo[cur]
      /\ refs' = refs \cup {new}
      /\ fts' = fts \cup {row}
      /\ newCounts' = [newCounts EXCEPT ![id] = @ + 1]
      /\ pos' = pos + 1
  BY DEF InsertChunk, work
<1>2. id \in Id /\ sharedKey[id] = key /\ key \in Key
  BY <1>1, IdOfFindsRow
<1>3. /\ cur \in Path /\ todo[cur] \in Doc
      /\ \A r \in refs : r.file = cur => r.index < pos
      /\ pos \in 1..MaxChunks
  BY <1>1, DocShape DEF IInv, Writing
<1>4. new \in ChunkRef /\ row \in FtsRow /\ new \notin refs
  <2>1. new.file = cur /\ new.index = pos
    OBVIOUS
  <2>2. ~(pos < pos)
    BY <1>3
  <2>3. new \notin refs
    BY <1>3, <2>1, <2>2
  <2> HIDE DEF id, key
  <2> QED BY <1>2, <1>3, <2>3 DEF ChunkRef, FtsRow
<1>5. new.shared = id /\ new.index = pos
  OBVIOUS
<1> HIDE DEF key, id, new, row
<1>6. TypeOK'
  <2>1. TableTypes(View)'
    BY <1>1, <1>4 DEF IInv, TypeOK, TableTypes, View
  <2>2. TableTypes(saved)'
    BY <1>1 DEF IInv, TypeOK, TableTypes
  <2>3. newCounts' \in [Id -> Nat] /\ pos' \in Nat \ {0}
    BY <1>1, <1>2, <1>3 DEF IInv, TypeOK
  <2> QED BY <1>1, <2>1, <2>2, <2>3 DEF IInv, TypeOK
<1>7. Balanced(sharedKey, refCount, refs, oldCounts, newCounts)'
  <2>1. IsFiniteSet(refs)
    BY DEF IInv, Balanced
  <2>2. IsFiniteSet(refs')
    BY <1>1, <1>4, <2>1, CountInsert
  <2>3. ASSUME NEW o \in Id
        PROVE  /\ refCount[o] = Cardinality(RefsTo(o, refs')) + oldCounts[o] - newCounts'[o]
               /\ sharedKey[o] = NoRow =>
                    RefsTo(o, refs') = {} /\ oldCounts[o] = 0 /\ newCounts'[o] = 0
    <3>1. /\ Cardinality(RefsTo(o, refs)) \in Nat
          /\ Cardinality(RefsTo(o, refs \cup {new}))
               = Cardinality(RefsTo(o, refs)) + (IF new.shared = o THEN 1 ELSE 0)
      BY <1>4, <2>1, CountInsert
    <3>2. newCounts'[o] = newCounts[o] + (IF id = o THEN 1 ELSE 0)
      BY <1>1, <1>2 DEF IInv, TypeOK
    <3>3. refCount[o] = Cardinality(RefsTo(o, refs)) + oldCounts[o] - newCounts[o]
      BY DEF IInv, Balanced
    <3>4. oldCounts[o] \in Nat /\ newCounts[o] \in Nat
      BY DEF IInv, TypeOK
    <3>5. refCount[o] = Cardinality(RefsTo(o, refs')) + oldCounts[o] - newCounts'[o]
      BY <1>1, <1>5, <3>1, <3>2, <3>3, <3>4
    <3>6. ASSUME sharedKey[o] = NoRow
          PROVE  RefsTo(o, refs') = {} /\ oldCounts[o] = 0 /\ newCounts'[o] = 0
      <4>1. o # id
        BY <1>2, <3>6, ChunkStoreAssumption
      <4>2. RefsTo(o, refs) = {} /\ oldCounts[o] = 0 /\ newCounts[o] = 0
        BY <3>6 DEF IInv, Balanced
      <4>3. RefsTo(o, refs') = RefsTo(o, refs)
        BY <1>1, <1>5, <4>1 DEF RefsTo
      <4> QED BY <3>2, <4>1, <4>2, <4>3
    <3> QED BY <3>5, <3>6
  <2> QED BY <1>1, <2>2, <2>3 DEF Balanced
<1>8. Balanced(saved.sharedKey, saved.refCount, saved.refs, Zero, Zero)'
  BY <1>1 DEF IInv, Balanced, RefsTo, Zero
<1>9. Writing'
  <2>1. ASSUME NEW r \in refs', r.file = cur PROVE r.index < pos + 1
    <3>1. CASE r \in refs
      <4>1. r.index < pos /\ r.index \in 1..MaxChunks
        BY <1>3, <2>1, <3>1 DEF IInv, TypeOK, TableTypes, View, ChunkRef
      <4> QED BY <1>3, <4>1
    <3>2. CASE r = new
      BY <1>3, <1>5, <3>2
    <3> QED BY <1>1, <2>1, <3>1, <3>2
  <2> QED BY <1>1, <1>3, <2>1 DEF Writing
<1> QED BY <1>1, <1>6, <1>7, <1>8, <1>9 DEF IInv

LEMMA CloseDocumentIInv ==
  ASSUME IInv, CloseDocument
  PROVE  IInv'
<1>1. /\ UNCHANGED <<files, refs, fts, sharedKey, vecChunks, vecIndex, saved,
                     kind, vectors, gone, prepared, embeds>>
      /\ pc = "doc" /\ pc' = "open"
      /\ refCount' = WithDeltas(oldCounts, newCounts)
      /\ todo' = [todo EXCEPT ![cur] = NoDoc]
      /\ cur' = NoDoc /\ pos' = 1 /\ oldCounts' = Zero /\ newCounts' = Zero
  BY DEF CloseDocument
<1>2. refCount' \in [Id -> Int]
  BY <1>1 DEF WithDeltas, IInv, TypeOK, TableTypes, View
<1>3. TypeOK'
  <2>1. TableTypes(View)'
    BY <1>1, <1>2 DEF IInv, TypeOK, TableTypes, View
  <2>2. TableTypes(saved)'
    BY <1>1 DEF IInv, TypeOK, TableTypes
  <2>3. todo' \in [Path -> Doc \cup {NoDoc}]
    <3>1. cur \in Path /\ todo \in [Path -> Doc \cup {NoDoc}]
      BY <1>1 DEF IInv, TypeOK, Writing
    <3> QED BY <1>1, <3>1
  <2>4. oldCounts' \in [Id -> Nat] /\ newCounts' \in [Id -> Nat]
    BY <1>1, ZeroIsZero
  <2> QED BY <1>1, <2>1, <2>2, <2>3, <2>4 DEF IInv, TypeOK
<1>4. Balanced(sharedKey, refCount, refs, oldCounts, newCounts)'
  <2>1. ASSUME NEW o \in Id
        PROVE  refCount'[o] = Cardinality(RefsTo(o, refs)) + Zero[o] - Zero[o]
    <3>1. refCount[o] = Cardinality(RefsTo(o, refs)) + oldCounts[o] - newCounts[o]
      BY DEF IInv, Balanced
    <3>2. /\ oldCounts[o] \in Nat /\ newCounts[o] \in Nat
          /\ Cardinality(RefsTo(o, refs)) \in Nat
      BY CountIsNat DEF IInv, TypeOK, Balanced
    <3>3. sharedKey[o] = NoRow => oldCounts[o] = 0 /\ newCounts[o] = 0
      BY DEF IInv, Balanced
    <3>4. refCount'[o] = IF sharedKey[o] = NoRow THEN refCount[o]
                         ELSE refCount[o] + newCounts[o] - oldCounts[o]
      BY <1>1 DEF WithDeltas
    <3> QED BY <3>1, <3>2, <3>3, <3>4, ZeroIsZero
  <2>2. \A o \in Id : sharedKey[o] = NoRow => RefsTo(o, refs) = {}
    BY DEF IInv, Balanced
  <2>3. IsFiniteSet(refs)
    BY DEF IInv, Balanced
  <2> QED BY <1>1, <2>1, <2>2, <2>3, ZeroIsZero DEF Balanced, RefsTo
<1>5. Balanced(saved.sharedKey, saved.refCount, saved.refs, Zero, Zero)'
  BY <1>1 DEF IInv, Balanced, RefsTo, Zero
<1> QED BY <1>1, <1>3, <1>4, <1>5 DEF IInv, Writing, Zero

LEMMA DropDocumentIInv ==
  ASSUME IInv, NEW p \in Path, DropDocument(p)
  PROVE  IInv'
<1>1. /\ UNCHANGED <<sharedKey, vecChunks, vecIndex, saved, pc, cur, pos, oldCounts,
                     newCounts, kind, vectors, todo, prepared, embeds>>
      /\ pc = "open"
      /\ refCount' = WithDeltas(CountsOf(p), Zero)
      /\ refs' = {r \in refs : r.file # p}
      /\ fts' = {row \in fts : row.file # p}
      /\ files' = files \ {p}
      /\ gone' = gone \ {p}
  BY DEF DropDocument, DeleteFileRows, doing
<1>2. IsFiniteSet(refs) /\ oldCounts = Zero /\ newCounts = Zero
  BY <1>1 DEF IInv, Balanced
<1>3. CountsOf(p) \in [Id -> Nat]
  BY <1>2, CountsType
<1>4. refCount' \in [Id -> Int]
  BY <1>1, <1>3, ZeroIsZero DEF WithDeltas, IInv, TypeOK, TableTypes, View
<1>5. TypeOK'
  <2>1. TableTypes(View)'
    BY <1>1, <1>4 DEF IInv, TypeOK, TableTypes, View
  <2>2. TableTypes(saved)'
    BY <1>1 DEF IInv, TypeOK, TableTypes
  <2> QED BY <1>1, <2>1, <2>2 DEF IInv, TypeOK
<1>6. Balanced(sharedKey, refCount, refs, oldCounts, newCounts)'
  <2>1. IsFiniteSet(refs')
    BY <1>1, <1>2, CountSplit
  <2>2. ASSUME NEW o \in Id
        PROVE  /\ refCount'[o] = Cardinality(RefsTo(o, refs')) + Zero[o] - Zero[o]
               /\ sharedKey[o] = NoRow => RefsTo(o, refs') = {}
    <3>1. /\ refCount[o] = Cardinality(RefsTo(o, refs)) + Zero[o] - Zero[o]
          /\ sharedKey[o] = NoRow => RefsTo(o, refs) = {}
      BY <1>2 DEF IInv, Balanced
    <3>2. CountsOf(p)[o] = Cardinality({r \in RefsTo(o, refs) : r.file = p})
      BY DEF CountsOf
    <3>3. RefsTo(o, refs') = RefsTo(o, {r \in refs : r.file # p})
      BY <1>1
    <3>4. /\ Cardinality({r \in RefsTo(o, refs) : r.file = p}) \in Nat
          /\ Cardinality(RefsTo(o, {r \in refs : r.file # p})) \in Nat
          /\ Cardinality(RefsTo(o, refs))
               = Cardinality({r \in RefsTo(o, refs) : r.file = p})
                   + Cardinality(RefsTo(o, {r \in refs : r.file # p}))
      BY <1>2, CountSplit
    <3>5. refCount'[o] = IF sharedKey[o] = NoRow THEN refCount[o]
                         ELSE refCount[o] + Zero[o] - CountsOf(p)[o]
      BY <1>1 DEF WithDeltas
    <3>6. CASE sharedKey[o] # NoRow
      BY <3>1, <3>2, <3>3, <3>4, <3>5, <3>6, ZeroIsZero
    <3>7. CASE sharedKey[o] = NoRow
      <4>1. RefsTo(o, refs') = {} /\ RefsTo(o, refs) = {}
        BY <1>1, <3>1, <3>7 DEF RefsTo
      <4> QED BY <4>1, <3>1, <3>5, <3>7
    <3> QED BY <3>6, <3>7
  <2> QED BY <1>1, <1>2, <2>1, <2>2, ZeroIsZero DEF Balanced
<1>7. Balanced(saved.sharedKey, saved.refCount, saved.refs, Zero, Zero)'
  BY <1>1 DEF IInv, Balanced, RefsTo, Zero
<1> QED BY <1>1, <1>2, <1>5, <1>6, <1>7 DEF IInv, Writing, Zero

LEMMA CollectIInv ==
  ASSUME IInv, Collect
  PROVE  IInv'
<1>1. /\ UNCHANGED <<files, refs, fts, saved, kind, vectors, todo, gone, prepared,
                     embeds, cur, pos, oldCounts, newCounts>>
      /\ pc = "open" /\ pc' = "collected"
      /\ vecIndex' = [id \in Id |-> IF id \in Unreferenced THEN NoRow ELSE vecIndex[id]]
      /\ vecChunks' = [id \in Id |-> IF id \in Unreferenced THEN NoRow ELSE vecChunks[id]]
      /\ sharedKey' = [id \in Id |-> IF id \in Unreferenced THEN NoRow ELSE sharedKey[id]]
      /\ refCount' = [id \in Id |-> IF id \in Unreferenced THEN 0 ELSE refCount[id]]
  BY DEF Collect, work, doing
<1>2. TypeOK'
  <2>1. TableTypes(View)'
    BY <1>1 DEF IInv, TypeOK, TableTypes, View
  <2>2. TableTypes(saved)'
    BY <1>1 DEF IInv, TypeOK, TableTypes
  <2> QED BY <1>1, <2>1, <2>2 DEF IInv, TypeOK
<1>3. Balanced(sharedKey, refCount, refs, oldCounts, newCounts)'
  <2>1. /\ IsFiniteSet(refs) /\ oldCounts = Zero /\ newCounts = Zero
    BY <1>1 DEF IInv, Balanced
  <2>2. ASSUME NEW o \in Id
        PROVE  /\ refCount'[o] = Cardinality(RefsTo(o, refs)) + Zero[o] - Zero[o]
               /\ sharedKey'[o] = NoRow => RefsTo(o, refs) = {}
    <3>1. CASE o \in Unreferenced
      <4>1. RefsTo(o, refs) = {} /\ refCount'[o] = 0
        BY <1>1, <3>1 DEF Unreferenced
      <4> QED BY <4>1, FS_EmptySet, ZeroIsZero
    <3>2. CASE o \notin Unreferenced
      BY <1>1, <2>1, <3>2 DEF IInv, Balanced
    <3> QED BY <3>1, <3>2
  <2> QED BY <1>1, <2>1, <2>2, ZeroIsZero DEF Balanced, RefsTo
<1>4. Balanced(saved.sharedKey, saved.refCount, saved.refs, Zero, Zero)'
  BY <1>1 DEF IInv, Balanced, RefsTo, Zero
<1> QED BY <1>1, <1>2, <1>3, <1>4 DEF IInv, Writing, Zero

\* The locals of a transaction are reset to well-typed values.
LEMMA EndTransactionTypes ==
  ASSUME EndTransaction
  PROVE  /\ pc' = "idle" /\ kind' = "reconcile" /\ vectors' \in BOOLEAN
         /\ todo' \in [Path -> Doc \cup {NoDoc}] /\ gone' \in SUBSET Path
         /\ prepared' \in SUBSET Key /\ embeds' \in [Key -> Nat]
         /\ cur' \in Path \cup {NoDoc} /\ pos' \in Nat \ {0}
         /\ oldCounts' = Zero /\ newCounts' = Zero
         /\ oldCounts' \in [Id -> Nat] /\ newCounts' \in [Id -> Nat]
<1>1. todo' \in [Path -> Doc \cup {NoDoc}] /\ embeds' \in [Key -> Nat]
  BY DEF EndTransaction
<1>2. pos' \in Nat \ {0}
  BY DEF EndTransaction
<1>3. vectors' \in BOOLEAN
  BY DEF EndTransaction
<1> QED BY <1>1, <1>2, <1>3, ZeroIsZero DEF EndTransaction

LEMMA CommitIInv ==
  ASSUME IInv, Commit
  PROVE  IInv'
<1>1. /\ UNCHANGED <<files, refs, fts, sharedKey, refCount, vecChunks, vecIndex>>
      /\ pc # "doc" /\ saved' = View /\ EndTransaction
  BY DEF Commit, tables
<1>2. /\ saved'.files = files /\ saved'.refs = refs /\ saved'.fts = fts
      /\ saved'.sharedKey = sharedKey /\ saved'.refCount = refCount
      /\ saved'.vecChunks = vecChunks /\ saved'.vecIndex = vecIndex
  BY <1>1 DEF View
<1>3. TypeOK'
  <2>1. TableTypes(View)'
    BY <1>1 DEF IInv, TypeOK, TableTypes, View
  <2>2. TableTypes(saved)'
    BY <1>2 DEF IInv, TypeOK, TableTypes, View
  <2>3. (saved = [files |-> saved.files, refs |-> saved.refs, fts |-> saved.fts,
                  sharedKey |-> saved.sharedKey, refCount |-> saved.refCount,
                  vecChunks |-> saved.vecChunks, vecIndex |-> saved.vecIndex])'
    BY <1>1, <1>2 DEF View
  <2> QED BY <1>1, <2>1, <2>2, <2>3, EndTransactionTypes DEF TypeOK
<1>4. Balanced(sharedKey, refCount, refs, Zero, Zero)
  BY <1>1 DEF IInv
<1>5. /\ Balanced(sharedKey, refCount, refs, oldCounts, newCounts)'
      /\ Balanced(saved.sharedKey, saved.refCount, saved.refs, Zero, Zero)'
  BY <1>1, <1>2, <1>4, EndTransactionTypes DEF Balanced, RefsTo, Zero
<1> QED BY <1>1, <1>3, <1>5, EndTransactionTypes DEF IInv, Writing, Zero

LEMMA RollbackIInv ==
  ASSUME IInv, Rollback
  PROVE  IInv'
<1>1. /\ files' = saved.files /\ refs' = saved.refs /\ fts' = saved.fts
      /\ sharedKey' = saved.sharedKey /\ refCount' = saved.refCount
      /\ vecChunks' = saved.vecChunks /\ vecIndex' = saved.vecIndex
      /\ saved' = saved /\ EndTransaction
  BY DEF Rollback
<1>2. TypeOK'
  <2>1. TableTypes(saved)'
    BY <1>1 DEF IInv, TypeOK, TableTypes
  <2>2. TableTypes(View)'
    BY <1>1 DEF IInv, TypeOK, TableTypes, View
  <2> QED BY <1>1, <2>1, <2>2, EndTransactionTypes DEF IInv, TypeOK
<1>3. /\ Balanced(sharedKey, refCount, refs, oldCounts, newCounts)'
      /\ Balanced(saved.sharedKey, saved.refCount, saved.refs, Zero, Zero)'
  BY <1>1, EndTransactionTypes DEF IInv, Balanced, RefsTo, Zero
<1>4. /\ pc' # "doc"
      /\ (pc # "doc" => oldCounts = Zero /\ newCounts = Zero)'
  BY <1>1, EndTransactionTypes DEF Zero
<1>5. Writing'
  BY <1>4 DEF Writing
<1> QED BY <1>2, <1>3, <1>4, <1>5 DEF IInv

LEMMA StutterIInv ==
  ASSUME IInv, UNCHANGED vars
  PROVE  IInv'
<1>1. UNCHANGED <<files, refs, fts, sharedKey, refCount, vecChunks, vecIndex, saved,
                  pc, kind, vectors, todo, gone, prepared, embeds, cur, pos,
                  oldCounts, newCounts>>
  BY DEF vars, tables, work, doing
<1>2. TypeOK'
  BY <1>1 DEF IInv, TypeOK, TableTypes, View
<1>3. /\ Balanced(sharedKey, refCount, refs, oldCounts, newCounts)'
      /\ Balanced(saved.sharedKey, saved.refCount, saved.refs, Zero, Zero)'
  BY <1>1 DEF IInv, Balanced, RefsTo, Zero
<1>4. Writing'
  BY <1>1 DEF IInv, Writing
<1> QED BY <1>1, <1>2, <1>3, <1>4 DEF IInv, Zero

LEMMA NextIInv == IInv /\ [Next]_vars => IInv'
<1> SUFFICES ASSUME IInv, [Next]_vars PROVE IInv'
  OBVIOUS
<1>1. ASSUME NEW batch \in [Path -> Doc \cup {NoDoc}], NEW v \in BOOLEAN,
             NEW drop \in SUBSET Path, BeginReconcile(batch, drop, v)
      PROVE  IInv'
  BY <1>1, BeginReconcileIInv
<1>2. ASSUME NEW batch \in [Path -> Doc \cup {NoDoc}], NEW v \in BOOLEAN,
             BeginRebuild(batch, v)
      PROVE  IInv'
  BY <1>2, BeginRebuildIInv
<1>3. ASSUME NEW p \in Path, OpenDocument(p) \/ DropDocument(p)
      PROVE  IInv'
  BY <1>3, OpenDocumentIInv, DropDocumentIInv
<1>4. ASSUME NEW i \in 1..MaxChunks, NEW id \in Id, ResolveKey(i, id)
      PROVE  IInv'
  BY <1>4, ResolveKeyIInv
<1>5. CASE InsertChunk
  BY <1>5, InsertChunkIInv
<1>6. CASE CloseDocument
  BY <1>6, CloseDocumentIInv
<1>7. CASE Collect
  BY <1>7, CollectIInv
<1>8. CASE Commit
  BY <1>8, CommitIInv
<1>9. CASE Rollback
  BY <1>9, RollbackIInv
<1>10. CASE UNCHANGED vars
  BY <1>10, StutterIInv
<1> QED
  BY <1>1, <1>2, <1>3, <1>4, <1>5, <1>6, <1>7, <1>8, <1>9, <1>10 DEF Next

LEMMA InvariantHolds == Spec => []IInv
BY InitIInv, NextIInv, PTL DEF Spec

-----------------------------------------------------------------------------
(* Theorems *)

\* Every reachable state of the tables and of the writer's locals is
\* well typed (create_schema and the locals of upsert_document, db.rs).
THEOREM TypeCorrect == Spec => []TypeOK
BY InvariantHolds, PTL DEF IInv

\* The deltas that upsert_document and delete_by_rel_path apply keep
\* shared_chunks.ref_count equal to the number of chunk_refs rows, whatever
\* documents share texts, whatever order they are written in, and wherever a
\* crash or an error cuts a transaction off.
THEOREM RefCountsExact == Spec => []RefCountExact
<1>1. IInv => RefCountExact
  <2> SUFFICES ASSUME IInv, pc # "doc", NEW id \in Id
               PROVE  refCount[id] = Cardinality(RefsTo(id, refs))
    BY DEF RefCountExact
  <2>1. refCount[id] = Cardinality(RefsTo(id, refs)) + Zero[id] - Zero[id]
    BY DEF IInv, Balanced
  <2>2. Cardinality(RefsTo(id, refs)) \in Nat
    BY CountIsNat DEF IInv, Balanced
  <2> QED BY <2>1, <2>2, ZeroIsZero
<1> QED BY <1>1, InvariantHolds, PTL

-----------------------------------------------------------------------------
(* How the rows hang together *)

\* The chunk indexes under which a path has references.
Indexes(rs, p) == {r.index : r \in {x \in rs : x.file = p}}

\* The FTS row of a reference.
RowOf(r, keyOf) == [file |-> r.file, index |-> r.index, text |-> keyOf[r.shared]]

\* What holds of the rows after every statement: a text has one row, the
\* references are live and numbered once per file, FTS mirrors them, and a
\* vector is that of the text that has its rowid now.
Linked(t) ==
  /\ \A i, j \in Id : t.sharedKey[i] # NoRow /\ t.sharedKey[i] = t.sharedKey[j] => i = j
  /\ \A r \in t.refs : t.sharedKey[r.shared] # NoRow /\ r.file \in t.files
  /\ \A r, s \in t.refs : r.file = s.file /\ r.index = s.index => r = s
  /\ t.fts = {RowOf(r, t.sharedKey) : r \in t.refs}
  /\ \A id \in Id : /\ t.vecIndex[id] = t.vecChunks[id]
                    /\ t.vecIndex[id] # NoRow => t.vecIndex[id] = t.sharedKey[id]

\* A path is indexed as a document: its chunks are numbered without gaps.
Whole(t, p) ==
  p \in t.files => \E n \in 1..MaxChunks : Indexes(t.refs, p) = 1..n

NoneUnused(t) == \A id \in Id : t.sharedKey[id] # NoRow => RefsTo(id, t.refs) # {}

\* What was committed, which is what there is when nobody writes.
Committed ==
  /\ Linked(saved) /\ NoneUnused(saved)
  /\ \A p \in Path : Whole(saved, p)
  /\ pc = "idle" => View = saved /\ kind = "reconcile"

\* All documents are whole but the one being written, which is written up to
\* the chunk before pos.
Documents ==
  /\ \A p \in Path : (pc = "doc" /\ p = cur) \/ Whole(View, p)
  /\ pc = "doc" => /\ cur \in files
                   /\ Indexes(refs, cur) = 1..(pos - 1)
                   /\ 1..(pos - 1) \subseteq DOMAIN todo[cur]
                   /\ \A r \in refs : r.file = cur => sharedKey[r.shared] = todo[cur][r.index]

\* A rebuild writes every path once, so it frees no text and needs no
\* collection: a text without references is about to get one.
Rebuilding ==
  kind = "rebuild" =>
    /\ pc # "collected" /\ gone = {}
    /\ \A p \in Pending : (pc = "doc" /\ p = cur) \/ p \notin files
    /\ \A id \in Id : sharedKey[id] # NoRow =>
         \/ RefsTo(id, refs) # {}
         \/ pc = "doc" /\ \E i \in DOMAIN todo[cur] : i >= pos /\ todo[cur][i] = sharedKey[id]

\* A reconcile removes no row before it collects, and what it collects has no
\* references; a text of before that is still there has its old rowid.
Retained ==
  /\ kind = "reconcile" /\ pc \in {"open", "doc"} =>
       \A id \in Id : saved.sharedKey[id] # NoRow => sharedKey[id] = saved.sharedKey[id]
  /\ pc = "collected" =>
       /\ NoneUnused(View)
       /\ \A i, j \in Id : saved.sharedKey[i] # NoRow /\ sharedKey[j] = saved.sharedKey[i] => i = j

\* A text of before has the vector it had, or none, and a new one has one
\* exactly when the transaction embeds.
Vectored ==
  pc # "idle" => \A id \in Id : sharedKey[id] # NoRow =>
    vecIndex[id] = IF kind = "reconcile" /\ saved.sharedKey[id] = sharedKey[id]
                   THEN saved.vecIndex[id]
                   ELSE IF vectors THEN sharedKey[id] ELSE NoRow

\* Every text that has still to be written was embedded up front or has a
\* row, so nothing is embedded on the spot.
Prepared ==
  /\ embeds = [key \in Key |-> IF key \in prepared THEN 1 ELSE 0]
  /\ kind = "reconcile" => prepared \cap Keys(saved.sharedKey) = {}
  /\ vectors /\ pc \in {"open", "doc"} =>
       \A p \in Pending : KeysOf(todo[p]) \subseteq prepared \cup Keys(sharedKey)

TInv ==
  /\ Linked(View) /\ Committed /\ Documents /\ Rebuilding /\ Retained
  /\ Vectored /\ Prepared

-----------------------------------------------------------------------------
(* Each action preserves the invariant *)

\* The tables are functions on the rowids, and references have a file, an
\* index and a rowid.
LEMMA Types ==
  ASSUME TypeOK
  PROVE  /\ files \in SUBSET Path
         /\ refs \in SUBSET ChunkRef
         /\ sharedKey \in [Id -> Key \cup {NoRow}]
         /\ vecChunks \in [Id -> Key \cup {NoRow}]
         /\ vecIndex \in [Id -> Key \cup {NoRow}]
         /\ \A r \in refs : r.file \in Path /\ r.index \in 1..MaxChunks /\ r.shared \in Id
<1>1. /\ files \in SUBSET Path
      /\ refs \in SUBSET ChunkRef
      /\ sharedKey \in [Id -> Key \cup {NoRow}]
      /\ vecChunks \in [Id -> Key \cup {NoRow}]
      /\ vecIndex \in [Id -> Key \cup {NoRow}]
  BY DEF TypeOK, TableTypes, View
<1> QED BY <1>1 DEF ChunkRef

LEMMA InitTInv == Init => TInv
<1> SUFFICES ASSUME Init PROVE TInv
  OBVIOUS
<1>1. /\ View.files = {} /\ View.refs = {} /\ View.fts = {}
      /\ View.sharedKey = Empty /\ View.vecChunks = Empty /\ View.vecIndex = Empty
      /\ saved = View
      /\ pc = "idle" /\ kind = "reconcile"
      /\ embeds = [key \in Key |-> 0] /\ prepared = {}
  BY DEF Init, View
<1>2. \A id \in Id : Empty[id] = NoRow
  BY DEF Empty
<1>3. Linked(View)
  BY <1>1, <1>2 DEF Linked
<1>4. NoneUnused(View) /\ \A p \in Path : Whole(View, p)
  BY <1>1, <1>2 DEF NoneUnused, Whole
<1>5. Committed
  BY <1>1, <1>3, <1>4 DEF Committed
<1>6. Documents
  BY <1>1, <1>4 DEF Documents
<1>7. Rebuilding /\ Retained /\ Vectored
  BY <1>1 DEF Rebuilding, Retained, Vectored
<1>8. Prepared
  BY <1>1 DEF Prepared
<1> QED BY <1>3, <1>5, <1>6, <1>7, <1>8 DEF TInv

\* What a batch prepares is what its documents say and the tables do not have.
LEMMA PrepareCovers ==
  ASSUME NEW batch \in [Path -> Doc \cup {NoDoc}], NEW v \in BOOLEAN, NEW keyOf,
         Prepare(batch, v, keyOf)
  PROVE  /\ embeds' = [key \in Key |-> IF key \in prepared' THEN 1 ELSE 0]
         /\ prepared' \cap Keys(keyOf) = {}
         /\ v => \A p \in Path : batch[p] # NoDoc =>
                   KeysOf(batch[p]) \subseteq prepared' \cup Keys(keyOf)
BY DEF Prepare

LEMMA BeginReconcileTInv ==
  ASSUME IInv, TInv, NEW batch \in [Path -> Doc \cup {NoDoc}],
         NEW drop \in SUBSET Path, NEW v \in BOOLEAN, BeginReconcile(batch, drop, v)
  PROVE  TInv'
<1>1. /\ UNCHANGED <<files, refs, fts, sharedKey, refCount, vecChunks, vecIndex, saved>>
      /\ pc = "idle" /\ pc' = "open" /\ kind' = "reconcile"
      /\ vectors' = v /\ todo' = batch
      /\ Prepare(batch, v, sharedKey)
  BY DEF BeginReconcile, tables
<1>2. View' = View /\ View = saved
  BY <1>1 DEF View, TInv, Committed
<1>3. sharedKey = saved.sharedKey /\ vecIndex = saved.vecIndex
  BY <1>2 DEF View
<1>4. Linked(View)' /\ Committed'
  BY <1>1, <1>2 DEF TInv, Committed, Linked, NoneUnused, RefsTo, Whole, Indexes, RowOf
<1>5. Documents'
  BY <1>1, <1>2 DEF TInv, Documents, Whole, Indexes
<1>6. Rebuilding'
  BY <1>1 DEF Rebuilding
<1>7. Retained'
  BY <1>1, <1>3 DEF Retained
<1>8. Vectored'
  BY <1>1, <1>3 DEF Vectored
<1>9. Prepared'
  <2>1. /\ embeds' = [key \in Key |-> IF key \in prepared' THEN 1 ELSE 0]
        /\ prepared' \cap Keys(sharedKey) = {}
        /\ v => \A p \in Path : batch[p] # NoDoc =>
                  KeysOf(batch[p]) \subseteq prepared' \cup Keys(sharedKey)
    BY <1>1, PrepareCovers
  <2>2. Keys(sharedKey)' = Keys(sharedKey) /\ Keys(saved.sharedKey)' = Keys(sharedKey)
    BY <1>1, <1>3 DEF Keys
  <2>3. Pending' = {p \in Path : batch[p] # NoDoc}
    BY <1>1 DEF Pending
  <2> QED BY <1>1, <2>1, <2>2, <2>3 DEF Prepared, KeysOf
<1> QED BY <1>4, <1>5, <1>6, <1>7, <1>8, <1>9 DEF TInv

LEMMA BeginRebuildTInv ==
  ASSUME IInv, TInv, NEW batch \in [Path -> Doc \cup {NoDoc}], NEW v \in BOOLEAN,
         BeginRebuild(batch, v)
  PROVE  TInv'
<1>1. /\ files' = {} /\ refs' = {} /\ fts' = {} /\ sharedKey' = Empty
      /\ vecChunks' = Empty /\ vecIndex' = Empty
      /\ saved' = saved /\ gone' = {}
      /\ pc' = "open" /\ kind' = "rebuild" /\ vectors' = v /\ todo' = batch
      /\ Prepare(batch, v, Empty)
  BY DEF BeginRebuild
<1>2. \A id \in Id : Empty[id] = NoRow
  BY DEF Empty
<1>3. Linked(View)'
  BY <1>1, <1>2 DEF Linked, View
<1>4. Committed'
  BY <1>1 DEF TInv, Committed, Linked, NoneUnused, RefsTo, Whole, Indexes, RowOf
<1>5. Documents'
  BY <1>1 DEF Documents, Whole, View
<1>6. Rebuilding' /\ Retained' /\ Vectored'
  BY <1>1, <1>2 DEF Rebuilding, Retained, Vectored
<1>7. Prepared'
  <2>1. /\ embeds' = [key \in Key |-> IF key \in prepared' THEN 1 ELSE 0]
        /\ v => \A p \in Path : batch[p] # NoDoc =>
                  KeysOf(batch[p]) \subseteq prepared' \cup Keys(Empty)
    BY <1>1, PrepareCovers
  <2>2. Keys(sharedKey)' = Keys(Empty)
    BY <1>1 DEF Keys
  <2>3. Pending' = {p \in Path : batch[p] # NoDoc}
    BY <1>1 DEF Pending
  <2> QED BY <1>1, <2>1, <2>2, <2>3 DEF Prepared, KeysOf
<1> QED BY <1>3, <1>4, <1>5, <1>6, <1>7 DEF TInv

\* Taking the rows of one path away leaves the others' linked and whole.
LEMMA DeleteFileRowsKeeps ==
  ASSUME NEW p \in Path, DeleteFileRows(p), Linked(View)
  PROVE  /\ fts' = {RowOf(r, sharedKey) : r \in refs'}
         /\ Indexes(refs', p) = {}
         /\ \A q \in Path \ {p} : Indexes(refs', q) = Indexes(refs, q)
<1>1. /\ refs' = {r \in refs : r.file # p}
      /\ fts' = {row \in fts : row.file # p}
  BY DEF DeleteFileRows
<1>2. fts = {RowOf(r, sharedKey) : r \in refs}
  BY DEF Linked, View
<1>3. \A r \in refs : RowOf(r, sharedKey).file = r.file
  BY DEF RowOf
<1> QED BY <1>1, <1>2, <1>3 DEF Indexes

LEMMA OpenDocumentTInv ==
  ASSUME IInv, TInv, NEW p \in Path, OpenDocument(p)
  PROVE  TInv'
<1>1. /\ UNCHANGED <<sharedKey, vecChunks, vecIndex, saved, kind, vectors, todo,
                     gone, prepared, embeds>>
      /\ pc = "open" /\ pc' = "doc" /\ cur' = p /\ pos' = 1
      /\ DeleteFileRows(p)
      /\ refs' = {r \in refs : r.file # p}
      /\ files' = files \cup {p}
      /\ p \in Pending
  BY DEF OpenDocument, DeleteFileRows, work
<1>2. /\ fts' = {RowOf(r, sharedKey) : r \in refs'}
      /\ Indexes(refs', p) = {}
      /\ \A q \in Path \ {p} : Indexes(refs', q) = Indexes(refs, q)
  BY <1>1, DeleteFileRowsKeeps DEF TInv
<1>3. Linked(View)'
  BY <1>1, <1>2 DEF TInv, Linked, View, RowOf
<1>4. Committed'
  BY <1>1 DEF TInv, Committed, Linked, NoneUnused, RefsTo, Whole, Indexes, RowOf
<1>5. Documents'
  <2>1. \A q \in Path \ {p} : Whole(View, q)'
    BY <1>1, <1>2 DEF TInv, Documents, Whole, View, Indexes
  <2>2. Indexes(refs, cur)' = 1..(pos' - 1) /\ 1..(pos' - 1) \subseteq DOMAIN todo'[cur']
    BY <1>1, <1>2 DEF Indexes
  <2> QED BY <1>1, <2>1, <2>2 DEF Documents
<1>6. Rebuilding'
  <2> SUFFICES ASSUME kind = "rebuild" PROVE Rebuilding'
    BY <1>1 DEF Rebuilding
  <2>1. p \notin files
    BY <1>1 DEF TInv, Rebuilding
  <2>2. refs' = refs
    BY <1>1, <2>1 DEF TInv, Linked, View
  <2> QED BY <1>1, <2>2 DEF TInv, Rebuilding, Pending, RefsTo
<1>7. Retained' /\ Vectored'
  BY <1>1 DEF TInv, Retained, Vectored
<1>8. Prepared'
  BY <1>1 DEF TInv, Prepared, Pending, KeysOf, Keys
<1> QED BY <1>3, <1>4, <1>5, <1>6, <1>7, <1>8 DEF TInv

\* A text without a row is new to the index, was embedded with the batch, and
\* has no reference yet from the document.
LEMMA UnresolvedIsNew ==
  ASSUME IInv, TInv, pc = "doc", NEW i \in Unresolved
  PROVE  /\ cur \in Path /\ cur \in Pending /\ todo[cur] \in Doc
         /\ i \in DOMAIN todo[cur] /\ todo[cur][i] \in Key
         /\ i \in Nat /\ i >= pos
         /\ \A id \in Id : sharedKey[id] # todo[cur][i]
         /\ vectors => todo[cur][i] \in prepared
<1>1. /\ cur \in Path /\ todo[cur] \in Doc /\ todo[cur] # NoDoc
      /\ i \in DOMAIN todo[cur] /\ todo[cur][i] \in Key /\ i \in Nat
      /\ pos \in Nat \ {0}
  <2>1. cur \in Path /\ todo[cur] \in Doc /\ i \in DOMAIN todo[cur] /\ pos \in Nat \ {0}
    BY DEF IInv, TypeOK, Writing, Unresolved
  <2>2. todo[cur] # NoDoc /\ todo[cur][i] \in Key /\ i \in 1..MaxChunks
    BY <2>1, DocShape
  <2> QED BY <2>1, <2>2
<1>2. cur \in Pending
  BY <1>1 DEF Pending
<1>3. todo[cur][i] \notin Keys(sharedKey)
  BY DEF Unresolved
<1>4. \A id \in Id : sharedKey[id] # todo[cur][i]
  BY <1>1, <1>3, ChunkStoreAssumption DEF Keys
<1>5. i >= pos
  <2> SUFFICES ASSUME i < pos PROVE FALSE
    BY <1>1
  <2>1. i \in 1..(pos - 1)
    <3>1. i \in 1..MaxChunks
      BY <1>1, DocShape
    <3> QED BY <1>1, <3>1
  <2>2. i \in Indexes(refs, cur)
    BY <2>1 DEF TInv, Documents
  <2>3. PICK r \in refs : r.file = cur /\ r.index = i
    BY <2>2 DEF Indexes
  <2>4. sharedKey[r.shared] = todo[cur][i]
    BY <2>3 DEF TInv, Documents
  <2>5. r.shared \in Id
    BY Types DEF IInv
  <2> QED BY <1>4, <2>4, <2>5
<1>6. vectors => todo[cur][i] \in prepared
  BY <1>1, <1>2, <1>3 DEF TInv, Prepared, KeysOf
<1> QED BY <1>1, <1>2, <1>4, <1>5, <1>6

LEMMA ResolveKeyTInv ==
  ASSUME IInv, TInv, NEW i \in 1..MaxChunks, NEW id \in Id, ResolveKey(i, id)
  PROVE  TInv'
<1> DEFINE key == todo[cur][i]
<1>1. /\ UNCHANGED <<files, refs, fts, saved, pc, kind, vectors, todo, gone, prepared,
                     cur, pos>>
      /\ pc = "doc" /\ i \in Unresolved
      /\ NextId(id)
      /\ sharedKey' = [sharedKey EXCEPT ![id] = key]
      /\ vecChunks' = IF vectors THEN [vecChunks EXCEPT ![id] = key] ELSE vecChunks
      /\ vecIndex' = IF vectors THEN [vecIndex EXCEPT ![id] = key] ELSE vecIndex
      /\ embeds' = IF vectors /\ key \notin prepared
                   THEN [embeds EXCEPT ![key] = @ + 1] ELSE embeds
  BY DEF ResolveKey, doing
<1>2. /\ cur \in Pending /\ i \in DOMAIN todo[cur] /\ i >= pos
      /\ key \in Key /\ key # NoRow
      /\ \A o \in Id : sharedKey[o] # key
      /\ vectors => key \in prepared
  BY <1>1, UnresolvedIsNew, ChunkStoreAssumption
<1> HIDE DEF key
<1>3. sharedKey[id] = NoRow
  BY <1>1, NextIdIsFree
<1>4. /\ sharedKey'[id] = key
      /\ \A o \in Id \ {id} : /\ sharedKey'[o] = sharedKey[o]
                              /\ vecIndex'[o] = vecIndex[o]
                              /\ vecChunks'[o] = vecChunks[o]
  BY <1>1, Types DEF IInv
<1>5. /\ vecIndex[id] = NoRow /\ vecChunks[id] = NoRow
  BY <1>3 DEF TInv, Linked, View
<1>6. /\ vecIndex'[id] = IF vectors THEN key ELSE NoRow
      /\ vecChunks'[id] = vecIndex'[id]
  BY <1>1, <1>5, Types DEF IInv
<1>7. \A r \in refs : r.shared \in Id /\ r.shared # id
  BY <1>3, Types DEF IInv, TInv, Linked, View
<1>8. Linked(View)'
  <2>1. \A a, b \in Id : sharedKey'[a] # NoRow /\ sharedKey'[a] = sharedKey'[b] => a = b
    BY <1>2, <1>4 DEF TInv, Linked, View
  <2>2. \A r \in refs : RowOf(r, sharedKey') = RowOf(r, sharedKey)
    BY <1>4, <1>7 DEF RowOf
  <2>3. fts' = {RowOf(r, sharedKey') : r \in refs'}
    <3>1. fts' = {RowOf(r, sharedKey) : r \in refs} /\ refs' = refs
      BY <1>1 DEF TInv, Linked, View
    <3> QED BY <2>2, <3>1
  <2>4. \A r \in refs' : sharedKey'[r.shared] # NoRow /\ r.file \in files'
    BY <1>1, <1>4, <1>7 DEF TInv, Linked, View
  <2>5. \A r, s \in refs' : r.file = s.file /\ r.index = s.index => r = s
    BY <1>1 DEF TInv, Linked, View
  <2>6. \A o \in Id : /\ vecIndex'[o] = vecChunks'[o]
                      /\ vecIndex'[o] # NoRow => vecIndex'[o] = sharedKey'[o]
    BY <1>4, <1>6 DEF TInv, Linked, View
  <2> QED BY <2>1, <2>3, <2>4, <2>5, <2>6 DEF Linked, View
<1>9. Committed'
  BY <1>1 DEF TInv, Committed, Linked, NoneUnused, RefsTo, Whole, Indexes, RowOf
<1>10. Documents'
  <2>1. \A r \in refs' : r.file = cur' => sharedKey'[r.shared] = todo'[cur'][r.index]
    BY <1>1, <1>4, <1>7 DEF TInv, Documents
  <2> QED BY <1>1, <2>1 DEF TInv, Documents, Whole, View, Indexes
<1>11. Rebuilding'
  <2>1. \A p \in Pending' : (pc' = "doc" /\ p = cur') \/ p \notin files' \/ kind' # "rebuild"
    BY <1>1 DEF TInv, Rebuilding, Pending
  <2>2. key = todo[cur][i]
    BY DEF key
  <2>3. \A o \in Id : kind = "rebuild" /\ sharedKey'[o] # NoRow =>
         \/ RefsTo(o, refs) # {}
         \/ \E j \in DOMAIN todo[cur] : j >= pos /\ todo[cur][j] = sharedKey'[o]
    BY <1>1, <1>2, <1>4, <2>2 DEF TInv, Rebuilding
  <2> QED BY <1>1, <2>1, <2>3 DEF TInv, Rebuilding, RefsTo
<1>12. Retained'
  BY <1>1, <1>3, <1>4 DEF TInv, Retained
<1>13. Vectored'
  <2>1. kind = "reconcile" => saved.sharedKey[id] # key
    BY <1>1, <1>2, <1>3 DEF TInv, Retained
  <2> QED BY <1>1, <1>2, <1>4, <1>6, <2>1 DEF TInv, Vectored
<1>14. Prepared'
  <2>1. embeds' = embeds
    BY <1>1, <1>2
  <2>2. Keys(sharedKey) \subseteq Keys(sharedKey)'
    BY <1>3, <1>4 DEF Keys
  <2>3. Pending' = Pending /\ Keys(saved.sharedKey)' = Keys(saved.sharedKey)
    BY <1>1 DEF Pending, Keys
  <2> QED BY <1>1, <2>1, <2>2, <2>3 DEF TInv, Prepared, KeysOf
<1> QED BY <1>8, <1>9, <1>10, <1>11, <1>12, <1>13, <1>14 DEF TInv

LEMMA InsertChunkTInv ==
  ASSUME IInv, TInv, InsertChunk
  PROVE  TInv'
<1> DEFINE key == todo[cur][pos]
           id == IdOf(key)
           new == [file |-> cur, index |-> pos, shared |-> id]
<1>1. /\ UNCHANGED <<files, sharedKey, vecChunks, vecIndex, saved, pc, kind, vectors,
                     todo, gone, prepared, embeds, cur>>
      /\ pc = "doc" /\ Unresolved = {} /\ pos \in DOMAIN todo[cur]
      /\ refs' = refs \cup {new}
      /\ fts' = fts \cup {[file |-> cur, index |-> pos, text |-> key]}
      /\ pos' = pos + 1
  BY DEF InsertChunk, work
<1>2. id \in Id /\ sharedKey[id] = key /\ key \in Key /\ key # NoRow
  BY <1>1, IdOfFindsRow, ChunkStoreAssumption
<1>3. /\ cur \in files /\ cur \in Path /\ pos \in Nat \ {0}
      /\ Indexes(refs, cur) = 1..(pos - 1)
      /\ 1..(pos - 1) \subseteq DOMAIN todo[cur]
  BY <1>1 DEF IInv, TypeOK, Writing, TInv, Documents
<1>4. /\ new.file = cur /\ new.index = pos /\ new.shared = id
      /\ RowOf(new, sharedKey) = [file |-> cur, index |-> pos, text |-> key]
  BY <1>2 DEF RowOf
<1>5. key = todo[cur][pos]
  OBVIOUS
<1> HIDE DEF key, id, new
<1>6. \A r \in refs : r.file = cur => r.index # pos
  <2>1. pos \notin 1..(pos - 1)
    BY <1>3
  <2> QED BY <1>3, <2>1 DEF Indexes
<1>7. Linked(View)'
  <2>1. fts' = {RowOf(r, sharedKey) : r \in refs'}
    BY <1>1, <1>4 DEF TInv, Linked, View
  <2>2. \A r \in refs' : sharedKey[r.shared] # NoRow /\ r.file \in files
    BY <1>1, <1>2, <1>3, <1>4 DEF TInv, Linked, View
  <2>3. \A r, s \in refs' : r.file = s.file /\ r.index = s.index => r = s
    BY <1>1, <1>4, <1>6 DEF TInv, Linked, View
  <2> QED BY <1>1, <2>1, <2>2, <2>3 DEF TInv, Linked, View
<1>8. Committed'
  BY <1>1 DEF TInv, Committed, Linked, NoneUnused, RefsTo, Whole, Indexes, RowOf
<1>9. Documents'
  <2>1. \A p \in Path \ {cur} : Indexes(refs', p) = Indexes(refs, p)
    BY <1>1, <1>4 DEF Indexes
  <2>2. \A p \in Path : (pc' = "doc" /\ p = cur') \/ Whole(View, p)'
    BY <1>1, <2>1 DEF TInv, Documents, Whole, View, Indexes
  <2>3. Indexes(refs', cur) = 1..pos
    <3>1. Indexes(refs', cur) = Indexes(refs, cur) \cup {pos}
      BY <1>1, <1>4 DEF Indexes
    <3> QED BY <1>3, <3>1
  <2>4. 1..pos \subseteq DOMAIN todo[cur]
    BY <1>1, <1>3
  <2>5. \A r \in refs' : r.file = cur => sharedKey[r.shared] = todo[cur][r.index]
    BY <1>1, <1>2, <1>4, <1>5 DEF TInv, Documents
  <2>6. pos' - 1 = pos
    BY <1>1, <1>3
  <2> QED BY <1>1, <1>3, <2>2, <2>3, <2>4, <2>5, <2>6 DEF Documents, Indexes
<1>10. Rebuilding'
  <2> SUFFICES ASSUME kind = "rebuild" PROVE Rebuilding'
    BY <1>1 DEF Rebuilding
  <2>1. ASSUME NEW o \in Id, sharedKey[o] # NoRow
        PROVE  \/ RefsTo(o, refs') # {}
               \/ \E j \in DOMAIN todo[cur] : j >= pos + 1 /\ todo[cur][j] = sharedKey[o]
    <3>1. CASE RefsTo(o, refs) # {}
      BY <1>1, <3>1 DEF RefsTo
    <3>2. ASSUME NEW j \in DOMAIN todo[cur], j >= pos, todo[cur][j] = sharedKey[o]
          PROVE  \/ RefsTo(o, refs') # {}
                 \/ \E k \in DOMAIN todo[cur] : k >= pos + 1 /\ todo[cur][k] = sharedKey[o]
      <4>1. CASE j = pos
        <5>1. o = id
          BY <1>2, <1>5, <2>1, <3>2, <4>1 DEF TInv, Linked, View
        <5> QED BY <1>1, <1>4, <5>1 DEF RefsTo
      <4>2. CASE j # pos
        <5>1. j \in Nat
          BY <1>1, <3>2, DocShape DEF IInv, Writing
        <5>2. j >= pos + 1
          BY <1>3, <3>2, <4>2, <5>1
        <5> QED BY <3>2, <5>2
      <4> QED BY <4>1, <4>2
    <3> QED BY <1>1, <2>1, <3>1, <3>2 DEF TInv, Rebuilding
  <2> QED BY <1>1, <2>1 DEF TInv, Rebuilding, Pending
<1>11. Retained' /\ Vectored'
  BY <1>1 DEF TInv, Retained, Vectored
<1>12. Prepared'
  BY <1>1 DEF TInv, Prepared, Pending, KeysOf, Keys
<1> QED BY <1>7, <1>8, <1>9, <1>10, <1>11, <1>12 DEF TInv

\* When the loop is over, the document is written from end to end.
LEMMA DocumentWritten ==
  ASSUME IInv, TInv, pc = "doc", pos \notin DOMAIN todo[cur]
  PROVE  /\ cur \in Path /\ cur \in Pending
         /\ \E n \in 1..MaxChunks : Indexes(refs, cur) = 1..n
         /\ \A i \in DOMAIN todo[cur] : ~(i >= pos)
<1>1. /\ cur \in Path /\ todo[cur] \in Doc /\ pos \in Nat \ {0}
      /\ Indexes(refs, cur) = 1..(pos - 1) /\ 1..(pos - 1) \subseteq DOMAIN todo[cur]
  BY DEF IInv, TypeOK, Writing, TInv, Documents
<1>2. cur \in Pending
  BY <1>1, DocShape DEF Pending
<1>3. PICK n \in 1..MaxChunks : DOMAIN todo[cur] = 1..n
  BY <1>1 DEF Doc
<1>4. n \in Nat /\ n >= 1
  BY ChunkStoreAssumption
<1>5. pos - 1 = n
  <2>1. pos > n
    BY <1>1, <1>3, <1>4
  <2>2. CASE pos - 1 = 0
    BY <1>1, <1>4, <2>1, <2>2
  <2>3. CASE pos - 1 >= 1
    <3>1. pos - 1 \in 1..n
      BY <1>1, <1>3, <2>3
    <3> QED BY <1>1, <1>4, <2>1, <3>1
  <2> QED BY <1>1, <2>2, <2>3
<1> QED BY <1>1, <1>2, <1>3, <1>4, <1>5

LEMMA CloseDocumentTInv ==
  ASSUME IInv, TInv, CloseDocument
  PROVE  TInv'
<1>1. /\ UNCHANGED <<files, refs, fts, sharedKey, vecChunks, vecIndex, saved, kind,
                     vectors, gone, prepared, embeds>>
      /\ pc = "doc" /\ pc' = "open"
      /\ todo' = [todo EXCEPT ![cur] = NoDoc]
      /\ pos \notin DOMAIN todo[cur]
  BY DEF CloseDocument
<1>2. /\ cur \in Path /\ cur \in Pending
      /\ \E n \in 1..MaxChunks : Indexes(refs, cur) = 1..n
      /\ \A i \in DOMAIN todo[cur] : ~(i >= pos)
  BY <1>1, DocumentWritten
<1>3. /\ Pending' = Pending \ {cur}
      /\ \A p \in Pending' : todo'[p] = todo[p]
  BY <1>1, <1>2 DEF IInv, TypeOK, Pending
<1>4. Linked(View)'
  BY <1>1 DEF TInv, Linked, View, RowOf
<1>5. Committed'
  BY <1>1 DEF TInv, Committed, Linked, NoneUnused, RefsTo, Whole, Indexes, RowOf
<1>6. Documents'
  BY <1>1, <1>2 DEF TInv, Documents, Whole, View, Indexes
<1>7. Rebuilding'
  BY <1>1, <1>2, <1>3 DEF TInv, Rebuilding, RefsTo
<1>8. Retained' /\ Vectored'
  BY <1>1 DEF TInv, Retained, Vectored
<1>9. Prepared'
  BY <1>1, <1>3 DEF TInv, Prepared, KeysOf, Keys
<1> QED BY <1>4, <1>5, <1>6, <1>7, <1>8, <1>9 DEF TInv

LEMMA DropDocumentTInv ==
  ASSUME IInv, TInv, NEW p \in Path, DropDocument(p)
  PROVE  TInv'
<1>1. /\ UNCHANGED <<sharedKey, vecChunks, vecIndex, saved, pc, kind, vectors, todo,
                     prepared, embeds, cur, pos>>
      /\ pc = "open" /\ p \in gone
      /\ DeleteFileRows(p)
      /\ refs' = {r \in refs : r.file # p}
      /\ files' = files \ {p}
  BY DEF DropDocument, DeleteFileRows, doing
<1>2. /\ fts' = {RowOf(r, sharedKey) : r \in refs'}
      /\ \A q \in Path \ {p} : Indexes(refs', q) = Indexes(refs, q)
  BY <1>1, DeleteFileRowsKeeps DEF TInv
<1>3. kind # "rebuild"
  BY <1>1 DEF TInv, Rebuilding
<1>4. Linked(View)'
  BY <1>1, <1>2 DEF TInv, Linked, View, RowOf
<1>5. Committed'
  BY <1>1 DEF TInv, Committed, Linked, NoneUnused, RefsTo, Whole, Indexes, RowOf
<1>6. Documents'
  BY <1>1, <1>2 DEF TInv, Documents, Whole, View, Indexes
<1>7. Rebuilding' /\ Retained' /\ Vectored'
  BY <1>1, <1>3 DEF TInv, Rebuilding, Retained, Vectored
<1>8. Prepared'
  BY <1>1 DEF TInv, Prepared, Pending, KeysOf, Keys
<1> QED BY <1>4, <1>5, <1>6, <1>7, <1>8 DEF TInv

LEMMA CollectTInv ==
  ASSUME IInv, TInv, Collect
  PROVE  TInv'
<1>1. /\ UNCHANGED <<files, refs, fts, saved, kind, vectors, todo, gone, prepared,
                     embeds, cur, pos>>
      /\ pc = "open" /\ pc' = "collected" /\ kind = "reconcile" /\ Pending = {}
      /\ vecIndex' = [id \in Id |-> IF id \in Unreferenced THEN NoRow ELSE vecIndex[id]]
      /\ vecChunks' = [id \in Id |-> IF id \in Unreferenced THEN NoRow ELSE vecChunks[id]]
      /\ sharedKey' = [id \in Id |-> IF id \in Unreferenced THEN NoRow ELSE sharedKey[id]]
  BY DEF Collect, work, doing
<1>2. \A r \in refs : r.shared \in Id /\ sharedKey'[r.shared] = sharedKey[r.shared]
  BY <1>1, Types DEF IInv, Unreferenced, RefsTo
<1>3. Linked(View)'
  <2>1. fts' = {RowOf(r, sharedKey') : r \in refs'}
    <3>1. \A r \in refs : RowOf(r, sharedKey') = RowOf(r, sharedKey)
      BY <1>2 DEF RowOf
    <3>2. fts' = {RowOf(r, sharedKey) : r \in refs} /\ refs' = refs
      BY <1>1 DEF TInv, Linked, View
    <3> QED BY <3>1, <3>2
  <2>2. \A r \in refs' : sharedKey'[r.shared] # NoRow /\ r.file \in files'
    BY <1>1, <1>2 DEF TInv, Linked, View
  <2> QED BY <1>1, <2>1, <2>2 DEF TInv, Linked, View
<1>4. Committed'
  BY <1>1 DEF TInv, Committed, Linked, NoneUnused, RefsTo, Whole, Indexes, RowOf
<1>5. Documents'
  BY <1>1 DEF TInv, Documents, Whole, View, Indexes
<1>6. Rebuilding'
  BY <1>1 DEF Rebuilding
<1>7. Retained'
  <2>1. NoneUnused(View)'
    BY <1>1 DEF NoneUnused, View, RefsTo, Unreferenced
  <2>2. \A i, j \in Id : saved.sharedKey[i] # NoRow /\ sharedKey'[j] = saved.sharedKey[i] => i = j
    BY <1>1 DEF TInv, Retained, Linked, View
  <2> QED BY <1>1, <2>1, <2>2 DEF Retained
<1>8. Vectored'
  BY <1>1 DEF TInv, Vectored
<1>9. Prepared'
  BY <1>1 DEF TInv, Prepared, Keys
<1> QED BY <1>3, <1>4, <1>5, <1>6, <1>7, <1>8, <1>9 DEF TInv

\* A transaction that may commit has written every document, and every text it
\* leaves is used: collected by a reconcile, written once by a rebuild.
LEMMA ReadyToCommit ==
  ASSUME IInv, TInv, Commit
  PROVE  /\ Linked(View) /\ NoneUnused(View)
         /\ \A p \in Path : Whole(View, p)
         /\ pc \in {"open", "collected"}
         /\ kind = "reconcile" => pc = "collected"
<1>1. pc = "collected" \/ (pc = "open" /\ kind = "rebuild" /\ Pending = {})
  BY DEF Commit
<1>2. NoneUnused(View)
  BY <1>1 DEF TInv, Retained, Rebuilding, NoneUnused, View
<1>3. \A p \in Path : Whole(View, p)
  BY <1>1 DEF TInv, Documents
<1> QED BY <1>1, <1>2, <1>3 DEF TInv

\* Outside a transaction the parts about one say nothing.
LEMMA IdleTInv ==
  ASSUME Linked(saved)', NoneUnused(saved)', (\A p \in Path : Whole(saved, p))',
         (View = saved)', pc' = "idle", kind' = "reconcile",
         embeds' = [key \in Key |-> 0], prepared' = {}
  PROVE  TInv'
<1>1. Linked(View)' /\ \A p \in Path : Whole(View, p)'
  BY DEF Linked, Whole
<1>2. Committed'
  BY DEF Committed
<1>3. Documents'
  BY <1>1 DEF Documents
<1>4. Rebuilding' /\ Retained' /\ Vectored'
  BY DEF Rebuilding, Retained, Vectored
<1>5. Prepared'
  BY DEF Prepared
<1> QED BY <1>1, <1>2, <1>3, <1>4, <1>5 DEF TInv

LEMMA CommitTInv ==
  ASSUME IInv, TInv, Commit
  PROVE  TInv'
<1>1. /\ UNCHANGED <<files, refs, fts, sharedKey, refCount, vecChunks, vecIndex>>
      /\ saved' = View /\ pc' = "idle" /\ kind' = "reconcile"
      /\ embeds' = [key \in Key |-> 0] /\ prepared' = {}
  BY DEF Commit, tables, EndTransaction
<1>2. View' = View
  BY <1>1 DEF View
<1>3. /\ Linked(View) /\ NoneUnused(View)
      /\ \A p \in Path : Whole(View, p)
  BY ReadyToCommit
<1>4. Linked(saved)' /\ NoneUnused(saved)' /\ (\A p \in Path : Whole(saved, p))'
  BY <1>1, <1>3 DEF Linked, NoneUnused, RefsTo, Whole, Indexes, RowOf
<1> QED BY <1>1, <1>2, <1>4, IdleTInv

LEMMA RollbackTInv ==
  ASSUME IInv, TInv, Rollback
  PROVE  TInv'
<1>1. /\ files' = saved.files /\ refs' = saved.refs /\ fts' = saved.fts
      /\ sharedKey' = saved.sharedKey /\ refCount' = saved.refCount
      /\ vecChunks' = saved.vecChunks /\ vecIndex' = saved.vecIndex
      /\ saved' = saved /\ pc' = "idle" /\ kind' = "reconcile"
      /\ embeds' = [key \in Key |-> 0] /\ prepared' = {}
  BY DEF Rollback, EndTransaction
<1>2. (View = saved)'
  BY <1>1 DEF View, IInv, TypeOK
<1>3. Linked(saved)' /\ NoneUnused(saved)' /\ (\A p \in Path : Whole(saved, p))'
  BY <1>1 DEF TInv, Committed, Linked, NoneUnused, RefsTo, Whole, Indexes, RowOf
<1> QED BY <1>1, <1>2, <1>3, IdleTInv

LEMMA StutterTInv ==
  ASSUME IInv, TInv, UNCHANGED vars
  PROVE  TInv'
<1>1. UNCHANGED <<files, refs, fts, sharedKey, refCount, vecChunks, vecIndex, saved, pc,
                  kind, vectors, todo, gone, prepared, embeds, cur, pos>>
  BY DEF vars, tables, work, doing
<1>2. View' = View
  BY <1>1 DEF View
<1>3. Linked(View)'
  BY <1>2 DEF TInv, Linked, RowOf
<1>4. Committed'
  BY <1>1, <1>2 DEF TInv, Committed, Linked, NoneUnused, RefsTo, Whole, Indexes, RowOf
<1>5. Documents' /\ Rebuilding'
  BY <1>1, <1>2 DEF TInv, Documents, Rebuilding, Whole, Indexes, Pending, RefsTo
<1>6. Retained' /\ Vectored'
  BY <1>1, <1>2 DEF TInv, Retained, Vectored, NoneUnused, RefsTo
<1>7. Prepared'
  BY <1>1 DEF TInv, Prepared, Pending, KeysOf, Keys
<1> QED BY <1>3, <1>4, <1>5, <1>6, <1>7 DEF TInv

LEMMA NextTInv == IInv /\ TInv /\ [Next]_vars => TInv'
<1> SUFFICES ASSUME IInv, TInv, [Next]_vars PROVE TInv'
  OBVIOUS
<1>1. ASSUME NEW batch \in [Path -> Doc \cup {NoDoc}], NEW v \in BOOLEAN,
             NEW drop \in SUBSET Path, BeginReconcile(batch, drop, v)
      PROVE  TInv'
  BY <1>1, BeginReconcileTInv
<1>2. ASSUME NEW batch \in [Path -> Doc \cup {NoDoc}], NEW v \in BOOLEAN,
             BeginRebuild(batch, v)
      PROVE  TInv'
  BY <1>2, BeginRebuildTInv
<1>3. ASSUME NEW p \in Path, OpenDocument(p) \/ DropDocument(p)
      PROVE  TInv'
  BY <1>3, OpenDocumentTInv, DropDocumentTInv
<1>4. ASSUME NEW i \in 1..MaxChunks, NEW id \in Id, ResolveKey(i, id)
      PROVE  TInv'
  BY <1>4, ResolveKeyTInv
<1>5. CASE InsertChunk
  BY <1>5, InsertChunkTInv
<1>6. CASE CloseDocument
  BY <1>6, CloseDocumentTInv
<1>7. CASE Collect
  BY <1>7, CollectTInv
<1>8. CASE Commit
  BY <1>8, CommitTInv
<1>9. CASE Rollback
  BY <1>9, RollbackTInv
<1>10. CASE UNCHANGED vars
  BY <1>10, StutterTInv
<1> QED
  BY <1>1, <1>2, <1>3, <1>4, <1>5, <1>6, <1>7, <1>8, <1>9, <1>10 DEF Next

LEMMA TablesHold == Spec => [](IInv /\ TInv)
<1>1. Spec => []IInv
  BY InvariantHolds
<1>2. Init => TInv
  BY InitTInv
<1>3. IInv /\ TInv /\ [Next]_vars => TInv'
  BY NextTInv
<1> QED BY <1>1, <1>2, <1>3, PTL DEF Spec

-----------------------------------------------------------------------------
(* Theorems *)

\* The foreign keys of the schema never stop a writer: after every statement of
\* a transaction each text has one row, and a reference points to a live text
\* and a live file.
THEOREM SharedRowsAreSound == Spec => []SharedRowsSound
<1>1. TInv => SharedRowsSound
  BY DEF TInv, Linked, View, SharedRowsSound
<1> QED BY <1>1, TablesHold, PTL

\* fts_chunks, which no foreign key protects, has exactly one row for each
\* chunk reference, with its text, after every statement.
THEOREM FtsIsAMirror == Spec => []FtsMirrorsRefs
<1>1. TInv => FtsMirrorsRefs
  BY DEF TInv, Linked, View, RowOf, FtsMirrorsRefs
<1> QED BY <1>1, TablesHold, PTL

\* A rowid that collection freed and SQLite hands out again never brings the
\* vector of its former text along.
THEOREM VectorsAreOwn == Spec => []VectorsOwnText
<1>1. TInv => VectorsOwnText
  BY DEF TInv, Linked, View, VectorsOwnText
<1> QED BY <1>1, TablesHold, PTL

\* A committed index has no text that no document uses and no file without a
\* chunk, although a rebuild never collects.
THEOREM NothingIsOrphaned == Spec => []NoOrphans
<1>1. IInv /\ TInv => NoOrphans
  <2> SUFFICES ASSUME IInv, TInv PROVE NoOrphans
    OBVIOUS
  <2>1. \A id \in Id : saved.sharedKey[id] # NoRow => RefsTo(id, saved.refs) # {}
    BY DEF TInv, Committed, NoneUnused
  <2>2. ASSUME NEW p \in saved.files PROVE \E r \in saved.refs : r.file = p
    <3>1. p \in Path
      BY DEF IInv, TypeOK, TableTypes
    <3>2. PICK n \in 1..MaxChunks : Indexes(saved.refs, p) = 1..n
      BY <3>1 DEF TInv, Committed, Whole
    <3>3. 1 \in Indexes(saved.refs, p)
      BY <3>2, ChunkStoreAssumption
    <3> QED BY <3>3 DEF Indexes
  <2> QED BY <2>1, <2>2 DEF NoOrphans
<1> QED BY <1>1, TablesHold, PTL

\* A transaction embeds a text at most once, and a reconcile none that the index
\* had: preparing under the lock leaves nothing for resolve_shared_chunk_ids to
\* embed on the spot.
THEOREM TextsAreEmbeddedOnce == Spec => []EmbedsOnce
<1>1. TInv => EmbedsOnce
  BY DEF TInv, Prepared, EmbedsOnce
<1> QED BY <1>1, TablesHold, PTL

\* A text used before and after a reconcile keeps its row and its vector,
\* whichever documents drop it and take it up in between.
THEOREM SharedRowsAreKept == Spec => KeepsSharedRows
<1> DEFINE Kept ==
      (pc = "collected" /\ pc' = "idle" /\ saved' = View) =>
        \A id \in Id :
          saved.sharedKey[id] # NoRow /\ saved.sharedKey[id] \in Keys(sharedKey) =>
            /\ sharedKey[id] = saved.sharedKey[id]
            /\ vecIndex[id] = saved.vecIndex[id]
<1>1. IInv /\ TInv => Kept
  <2> SUFFICES ASSUME IInv, TInv, pc = "collected", NEW id \in Id,
                      saved.sharedKey[id] # NoRow, saved.sharedKey[id] \in Keys(sharedKey)
               PROVE  /\ sharedKey[id] = saved.sharedKey[id]
                      /\ vecIndex[id] = saved.vecIndex[id]
    OBVIOUS
  <2>1. PICK j \in Id : sharedKey[j] = saved.sharedKey[id]
    BY DEF Keys
  <2>2. j = id
    BY <2>1 DEF TInv, Retained
  <2>3. kind = "reconcile"
    BY DEF IInv, TypeOK, TInv, Rebuilding
  <2> QED BY <2>1, <2>2, <2>3 DEF TInv, Vectored
<1>2. [](IInv /\ TInv) => [][Kept]_vars
  BY <1>1, PTL
<1> QED BY <1>2, TablesHold, PTL DEF KeepsSharedRows

-----------------------------------------------------------------------------
(* Reading documents back out of the tables *)

\* The documents and the embedded texts of a view of the tables.
DocIn(t, p) ==
  LET mine == {r \in t.refs : r.file = p} IN
  IF p \notin t.files THEN NoDoc
  ELSE [i \in {r.index : r \in mine} |->
          t.sharedKey[(CHOOSE r \in mine : r.index = i).shared]]

DocsIn(t) == [p \in Path |-> DocIn(t, p)]

\* A view whose rows hang together and leave nothing unused.
Sound(t) ==
  /\ TableTypes(t) /\ Linked(t) /\ NoneUnused(t)
  /\ \A p \in Path : Whole(t, p)

\* A path with a files row reads back as a document, the one whose texts its
\* references name.
LEMMA DocumentReadsBack ==
  ASSUME NEW t, Sound(t), NEW p \in Path, p \in t.files
  PROVE  /\ DocIn(t, p) \in Doc
         /\ KeysOf(DocIn(t, p)) = {t.sharedKey[r.shared] : r \in {x \in t.refs : x.file = p}}
<1> DEFINE mine == {x \in t.refs : x.file = p}
           At(i) == CHOOSE r \in mine : r.index = i
           doc == [i \in {r.index : r \in mine} |-> t.sharedKey[At(i).shared]]
<1>1. DocIn(t, p) = doc
  BY DEF DocIn
<1>2. PICK n \in 1..MaxChunks : {r.index : r \in mine} = 1..n
  BY DEF Sound, Whole, Indexes
<1>3. \A r \in mine : /\ r.shared \in Id
                      /\ t.sharedKey[r.shared] \in Key
  <2>1. \A r \in mine : r.shared \in Id /\ t.sharedKey[r.shared] # NoRow
    BY DEF Sound, TableTypes, ChunkRef, Linked
  <2> QED BY <2>1 DEF Sound, TableTypes
<1>4. \A r \in mine : At(r.index) = r
  <2> TAKE r \in mine
  <2>1. At(r.index) \in mine /\ At(r.index).index = r.index
    OBVIOUS
  <2> QED BY <2>1 DEF Sound, Linked
<1>5. \A i \in 1..n : At(i) \in mine
  <2> TAKE i \in 1..n
  <2>1. PICK r \in mine : r.index = i
    BY <1>2
  <2> QED BY <2>1, <1>4
<1>6. doc \in [1..n -> Key]
  <2> HIDE DEF mine, At
  <2> QED BY <1>2, <1>3, <1>5
<1>7. doc \in Doc
  BY <1>6 DEF Doc
<1>8. KeysOf(doc) = {t.sharedKey[r.shared] : r \in mine}
  <2>1. KeysOf(doc) = {doc[i] : i \in 1..n}
    BY <1>6 DEF KeysOf
  <2>2. \A r \in mine : r.index \in 1..n /\ doc[r.index] = t.sharedKey[r.shared]
    BY <1>2, <1>4
  <2>3. \A i \in 1..n : doc[i] = t.sharedKey[At(i).shared]
    BY <1>2
  <2> HIDE DEF doc, At, mine
  <2> QED BY <1>5, <2>1, <2>2, <2>3
<1> QED BY <1>1, <1>7, <1>8

\* The documents of a sound view use exactly the texts of its shared rows.
LEMMA DocumentsUseTheRows ==
  ASSUME NEW t, Sound(t)
  PROVE  /\ DocsIn(t) \in [Path -> Doc \cup {NoDoc}]
         /\ Index!Used(DocsIn(t)) = Keys(t.sharedKey)
<1>1. \A p \in Path : DocsIn(t)[p] = DocIn(t, p)
  BY DEF DocsIn
<1>2. NoDoc \notin Doc
  BY ChunkStoreAssumption DEF Doc
<1>3. \A p \in Path : p \notin t.files => DocIn(t, p) = NoDoc
  BY DEF DocIn
<1>4. \A p \in Path : DocIn(t, p) # NoDoc <=> p \in t.files
  BY <1>2, <1>3, DocumentReadsBack
<1>5. DocsIn(t) \in [Path -> Doc \cup {NoDoc}]
  BY <1>3, DocumentReadsBack DEF DocsIn
<1>6. \A key \in Index!Used(DocsIn(t)) : key \in Keys(t.sharedKey)
  <2> TAKE key \in Index!Used(DocsIn(t))
  <2>1. PICK p \in Path : DocIn(t, p) # NoDoc /\ key \in KeysOf(DocIn(t, p))
    BY <1>1 DEF Index!Used
  <2>2. PICK r \in t.refs : r.file = p /\ key = t.sharedKey[r.shared]
    BY <1>4, <2>1, DocumentReadsBack
  <2>3. r.shared \in Id /\ t.sharedKey[r.shared] # NoRow
    BY DEF Sound, TableTypes, ChunkRef, Linked
  <2> QED BY <2>2, <2>3 DEF Keys
<1>7. \A key \in Keys(t.sharedKey) : key \in Index!Used(DocsIn(t))
  <2> TAKE key \in Keys(t.sharedKey)
  <2>1. PICK id \in Id : t.sharedKey[id] = key /\ key # NoRow
    BY DEF Keys
  <2>2. PICK r \in t.refs : r.shared = id
    BY <2>1 DEF Sound, NoneUnused, RefsTo
  <2>3. r.file \in Path /\ r.file \in t.files
    BY DEF Sound, TableTypes, ChunkRef, Linked
  <2>4. key \in KeysOf(DocIn(t, r.file))
    BY <2>1, <2>2, <2>3, DocumentReadsBack
  <2> QED BY <1>1, <1>4, <2>3, <2>4 DEF Index!Used
<1> QED BY <1>5, <1>6, <1>7

\* DocAt is DocIn of the committed view.
LEMMA DocsAreSaved ==
  /\ [p \in Path |-> DocAt(p)] = DocsIn(saved)
  /\ [p \in Path |-> DocAt(p)]' = DocsIn(saved')
BY DEF DocsIn, DocIn, DocAt

-----------------------------------------------------------------------------
(* A commit is one step of DocIndex *)

\* What a reconcile commits has the vectors EmbeddedAfter promises.
LEMMA ReconciledVectors ==
  ASSUME IInv, TInv, pc = "collected"
  PROVE  Keys(vecIndex)
           = (Keys(saved.vecIndex) \cap Keys(sharedKey))
               \cup (IF vectors THEN Keys(sharedKey) \ Keys(saved.sharedKey) ELSE {})
<1>1. kind = "reconcile"
  BY DEF IInv, TypeOK, TInv, Rebuilding
<1>2. \A id \in Id : sharedKey[id] # NoRow =>
        vecIndex[id] = IF saved.sharedKey[id] = sharedKey[id] THEN saved.vecIndex[id]
                       ELSE IF vectors THEN sharedKey[id] ELSE NoRow
  BY <1>1 DEF TInv, Vectored
<1>3. \A id \in Id : vecIndex[id] # NoRow => vecIndex[id] = sharedKey[id]
  BY DEF TInv, Linked, View
<1>4. \A id \in Id : saved.vecIndex[id] # NoRow => saved.vecIndex[id] = saved.sharedKey[id]
  BY DEF TInv, Committed, Linked
<1>5. \A i, j \in Id : saved.sharedKey[i] # NoRow /\ sharedKey[j] = saved.sharedKey[i] => i = j
  BY DEF TInv, Retained
<1> QED BY <1>2, <1>3, <1>4, <1>5 DEF Keys

\* What a rebuild commits has a vector for every text, or none at all.
LEMMA RebuiltVectors ==
  ASSUME TInv, pc = "open", kind = "rebuild"
  PROVE  Keys(vecIndex) = IF vectors THEN Keys(sharedKey) ELSE {}
<1>1. \A id \in Id : sharedKey[id] # NoRow =>
        vecIndex[id] = IF vectors THEN sharedKey[id] ELSE NoRow
  BY DEF TInv, Vectored
<1>2. \A id \in Id : vecIndex[id] # NoRow => vecIndex[id] = sharedKey[id]
  BY DEF TInv, Linked, View
<1> QED BY <1>1, <1>2 DEF Keys

LEMMA SavedIsSound == IInv /\ TInv => Sound(saved)
BY DEF IInv, TypeOK, TInv, Committed, Sound

LEMMA CommitRefines ==
  ASSUME IInv, TInv, IInv', TInv', Commit
  PROVE  Index!Next
<1> DEFINE before == DocsIn(saved)
           after == DocsIn(saved')
<1>1. Sound(saved)
  BY SavedIsSound
<1>2. Sound(saved')
  BY DEF IInv, TypeOK, TInv, Committed, Sound
<1>3. saved'.sharedKey = sharedKey /\ saved'.vecIndex = vecIndex
  BY DEF Commit, View
<1>4. /\ after \in [Path -> Doc \cup {NoDoc}]
      /\ Index!Used(before) = Keys(saved.sharedKey)
      /\ Index!Used(after) = Keys(sharedKey)
  BY <1>1, <1>2, <1>3, DocumentsUseTheRows
<1>5. vectors \in BOOLEAN
  BY DEF IInv, TypeOK
<1>6. /\ [p \in Path |-> DocAt(p)] = before
      /\ [p \in Path |-> DocAt(p)]' = after
      /\ Keys(saved.vecIndex)' = Keys(vecIndex)
  BY <1>3, DocsAreSaved
<1> HIDE DEF before, after
<1>7. CASE pc = "collected"
  <2>1. after \in Index!Batch
    BY <1>4 DEF Index!Batch
  <2>2. Index!Applied(before, after) = after
    BY <1>4 DEF Index!Applied
  <2>3. Keys(vecIndex) = Index!EmbeddedAfter(before, after, Keys(saved.vecIndex), vectors)
    BY <1>4, <1>7, ReconciledVectors DEF Index!EmbeddedAfter
  <2>4. Index!Reconcile(after, vectors)
    BY <1>6, <2>2, <2>3 DEF Index!Reconcile
  <2> QED BY <1>5, <2>1, <2>4 DEF Index!Next
<1>8. CASE pc = "open" /\ kind = "rebuild"
  <2>1. Keys(vecIndex) = IF vectors THEN Index!Used(after) ELSE {}
    BY <1>4, <1>8, RebuiltVectors
  <2>2. Index!Rebuild(after, vectors)
    BY <1>6, <2>1 DEF Index!Rebuild
  <2> QED BY <1>4, <1>5, <2>2 DEF Index!Next
<1> QED BY <1>7, <1>8 DEF Commit

-----------------------------------------------------------------------------
\* Every commit of the row work is one atomic Reconcile or Rebuild of the
\* abstract index, and no other statement, crash or error is visible to a
\* reader.
THEOREM ChunkStoreRefinesDocIndex == Spec => ImplementsDocIndex
<1>1. Init => Index!Init
  <2> SUFFICES ASSUME Init PROVE Index!Init
    OBVIOUS
  <2>1. saved.files = {} /\ saved.vecIndex = Empty
    BY DEF Init, View
  <2>2. [p \in Path |-> DocAt(p)] = [p \in Path |-> NoDoc]
    BY <2>1 DEF DocAt
  <2>3. Keys(saved.vecIndex) = {}
    BY <2>1 DEF Keys, Empty
  <2> QED BY <2>2, <2>3 DEF Index!Init
<1>2. IInv /\ TInv /\ IInv' /\ TInv' /\ [Next]_vars => [Index!Next]_(Index!vars)
  <2> SUFFICES ASSUME IInv, TInv, IInv', TInv', [Next]_vars
               PROVE  [Index!Next]_(Index!vars)
    OBVIOUS
  <2>1. CASE Commit
    BY <2>1, CommitRefines
  <2>2. CASE UNCHANGED saved
    BY <2>2, DocsAreSaved DEF Index!vars
  <2>3. [Next]_vars => Commit \/ UNCHANGED saved
    BY DEF Next, vars, BeginReconcile, BeginRebuild, OpenDocument, DropDocument,
           ResolveKey, InsertChunk, CloseDocument, Collect, Rollback
  <2> QED BY <2>1, <2>2, <2>3
<1> QED BY <1>1, <1>2, TablesHold, PTL DEF Spec, ImplementsDocIndex, Index!Spec

=============================================================================
