------------------------ MODULE DocumentLoader_proofs ------------------------
(***************************************************************************)
(* Proofs about DocumentLoader, for any directories, any number of threads *)
(* and of edits, and any limits.                                           *)
(***************************************************************************)
EXTENDS DocumentLoader, Chunkers_proofs

-----------------------------------------------------------------------------
(* Arithmetic *)

LEMMA Division ==
  ASSUME NEW a \in Nat, NEW b \in Nat \ {0}
  PROVE  /\ a \div b \in Nat
         /\ b * (a \div b) <= a
         /\ a < b * (a \div b) + b
  BY Z3

LEMMA DivCeilIs ==
  ASSUME NEW a \in Nat \ {0}, NEW b \in Nat \ {0}
  PROVE  /\ DivCeil(a, b) \in Nat \ {0}
         /\ a <= DivCeil(a, b) * b
         /\ (DivCeil(a, b) - 1) * b < a
<1> DEFINE q == (a + b - 1) \div b
<1>1. a + b - 1 \in Nat
  OBVIOUS
<1>2. q \in Nat /\ b * q <= a + b - 1 /\ a + b - 1 < b * q + b
  BY <1>1, Division
<1>3. b * q = q * b /\ (q - 1) * b = q * b - b
  BY <1>2
<1>4. q # 0
  BY <1>2
<1> QED BY <1>2, <1>3, <1>4 DEF DivCeil

LEMMA WorkersType ==
  ASSUME NEW tasks \in Nat, NEW configured \in Threads
  PROVE  ResolveIndexParallelism(tasks, configured) \in Nat \ {0}
<1> DEFINE limit == IF configured # Unset THEN configured
                    ELSE Larger(1, Smaller(Available, MaxWorkers))
<1>1. Larger(1, Smaller(Available, MaxWorkers)) \in Nat
  BY DocumentLoaderAssumption DEF Larger, Smaller
<1>2. configured # Unset => configured \in Nat
  BY DocumentLoaderAssumption
<1>3. limit \in Nat
  BY <1>1, <1>2
<1> HIDE DEF limit
<1>4. Larger(1, Smaller(tasks, limit)) \in Nat \ {0}
  BY <1>3 DEF Larger, Smaller
<1> QED BY <1>4 DEF ResolveIndexParallelism, limit

\* The first position of a batch.
First(bs, b) == IF b = 1 THEN 1 ELSE bs[b - 1].upto + 1

Fresh == [at : Nat \ {0}, upto : Nat, out : {<<>>}, error : {FALSE}]

\* The batches a load starts with follow one another and end with the last
\* position, although their size is rounded up.
LEMMA BatchesAre ==
  ASSUME NEW tasks \in Nat \ {0}, NEW configured \in Threads,
         NEW bs, bs = Batches(tasks, configured)
  PROVE  /\ bs \in Seq(Fresh)
         /\ bs # <<>>
         /\ bs[Len(bs)].upto = tasks
         /\ \A b \in DOMAIN bs : /\ bs[b].at = First(bs, b)
                                 /\ bs[b].at <= bs[b].upto + 1
                                 /\ bs[b].upto <= tasks
<1> DEFINE workers == ResolveIndexParallelism(tasks, configured)
           size == BatchSize(tasks, workers)
           n == Smaller(workers, DivCeil(tasks, size))
<1>1. workers \in Nat \ {0}
  BY WorkersType
<1>2. size \in Nat \ {0} /\ tasks <= size * workers
  BY <1>1, DivCeilIs DEF BatchSize
<1> HIDE DEF workers, size
<1>3. /\ DivCeil(tasks, size) \in Nat \ {0}
      /\ tasks <= DivCeil(tasks, size) * size
      /\ (DivCeil(tasks, size) - 1) * size < tasks
  BY <1>2, DivCeilIs
<1>4. n \in Nat \ {0} /\ n <= DivCeil(tasks, size)
  BY <1>1, <1>3 DEF Smaller
<1>5. tasks <= n * size
  <2>1. size * workers = workers * size
    BY <1>1, <1>2
  <2> QED BY <1>2, <1>3, <2>1 DEF Smaller
<1>6. \A b \in 1..n : (b - 1) * size < tasks /\ (b - 1) * size \in Nat /\ b * size \in Nat
                      /\ b * size = (b - 1) * size + size
  <2> SUFFICES ASSUME NEW b \in 1..n
               PROVE  (b - 1) * size < tasks /\ (b - 1) * size \in Nat /\ b * size \in Nat
                      /\ b * size = (b - 1) * size + size
    OBVIOUS
  <2>1. b \in Nat \ {0} /\ b - 1 \in Nat /\ b <= DivCeil(tasks, size)
    BY <1>3, <1>4
  <2>2. (b - 1) * size <= (DivCeil(tasks, size) - 1) * size
    <3>1. \A x, y \in Nat : x <= y => x * size <= y * size
      BY <1>2, Z3
    <3> QED BY <2>1, <1>3, <3>1
  <2>3. (b - 1) * size \in Nat /\ b * size \in Nat /\ b * size = (b - 1) * size + size
    BY <2>1, <1>2
  <2>4. (DivCeil(tasks, size) - 1) * size \in Int
    BY <1>2, <1>3
  <2> QED BY <1>3, <2>2, <2>3, <2>4
<1> HIDE DEF n
<1>7. bs = [b \in 1..n |-> [at |-> (b - 1) * size + 1, upto |-> Smaller(b * size, tasks),
                            out |-> <<>>, error |-> FALSE]]
  BY DEF Batches, workers, size, n
<1>8. Len(bs) = n /\ DOMAIN bs = 1..n /\ bs # <<>>
  BY <1>4, <1>7
<1>9. \A b \in 1..n : bs[b].upto \in Nat /\ bs[b].at \in Nat \ {0}
  BY <1>6, <1>7 DEF Smaller
<1>10. bs \in Seq(Fresh)
  BY <1>4, <1>7, <1>9 DEF Fresh
<1>11. bs[n].upto = tasks
  BY <1>4, <1>5, <1>6, <1>7 DEF Smaller
<1>12. \A b \in 1..n : /\ bs[b].at = First(bs, b)
                       /\ bs[b].at <= bs[b].upto + 1
                       /\ bs[b].upto <= tasks
  <2> SUFFICES ASSUME NEW b \in 1..n
               PROVE  /\ bs[b].at = First(bs, b)
                      /\ bs[b].at <= bs[b].upto + 1
                      /\ bs[b].upto <= tasks
    OBVIOUS
  <2>1. /\ bs[b].at = (b - 1) * size + 1
        /\ bs[b].upto = Smaller(b * size, tasks)
    BY <1>7
  <2>2. bs[b].at <= bs[b].upto + 1 /\ bs[b].upto <= tasks
    BY <1>2, <1>6, <2>1 DEF Smaller
  <2>3. CASE b = 1
    <3>1. (b - 1) * size = 0
      BY <2>3, <1>2
    <3> QED BY <2>1, <2>2, <2>3, <3>1 DEF First
  <2>4. CASE b # 1
    <3>1. b - 1 \in 1..n
      BY <2>4, <1>4
    <3>2. bs[b - 1].upto = Smaller((b - 1) * size, tasks)
      BY <1>7, <3>1
    <3>3. bs[b - 1].upto = (b - 1) * size
      BY <1>6, <3>2 DEF Smaller
    <3> QED BY <2>1, <2>2, <2>4, <3>3 DEF First
  <2> QED BY <2>2, <2>3, <2>4
<1> QED BY <1>8, <1>10, <1>11, <1>12

-----------------------------------------------------------------------------
(* Counting chunks.  TotalChunks is a recursive function; what it computes   *)
(* follows from the least position at which the function could be wrong.     *)

Docs == Body \cup {NoDoc}

LEMMA ChunkCountType ==
  ASSUME NEW d \in Docs
  PROVE  ChunkCount(d) \in Nat
<1>1. CASE d = NoDoc
  BY <1>1 DEF ChunkCount
<1>2. CASE d # NoDoc
  <2>1. d \in Body
    BY <1>2 DEF Docs
  <2>2. ChunksOf[d] = IF IsCode(d) THEN BuildSymbolChunks(LanguageOf(d), d.tree, d.rows)
                      ELSE BuildChunks(d.lines)
    BY <2>1 DEF ChunksOf
  <2>3. IF IsCode(d) THEN d.tree \in Tree ELSE d.lines \in Texts
    BY <2>1, DocumentLoaderBodies DEF Texts
  <2>4. Len(ChunksOf[d]) \in Nat
    <3>1. CASE IsCode(d)
      BY <2>2, <2>3, <3>1, SymbolListType
    <3>2. CASE ~IsCode(d)
      BY <2>2, <2>3, <3>2, ChunkListType
    <3> QED BY <3>1, <3>2
  <2> QED BY <1>2, <2>4 DEF ChunkCount
<1> QED BY <1>1, <1>2

\* The running totals of the first n documents.
Totals(t, docs, n) ==
  t = [i \in 0..n |-> IF i = 0 THEN 0 ELSE t[i - 1] + ChunkCount(docs[i])]

LEMMA TotalsExist ==
  ASSUME NEW docs, NEW n \in Nat
  PROVE  \E t : Totals(t, docs, n)
<1> DEFINE Bad == {k \in Nat : ~\E t : Totals(t, docs, k)}
<1>1. ASSUME Bad # {}
      PROVE  FALSE
  <2>1. PICK k \in Bad : \A j \in Bad : k <= j
    BY <1>1, LeastOfNat
  <2>2. k # 0
    <3>1. Totals([i \in 0..0 |-> 0], docs, 0)
      BY DEF Totals
    <3> QED BY <3>1
  <2>3. PICK t : Totals(t, docs, k - 1)
    BY <2>1, <2>2
  <2> DEFINE u == [i \in 0..k |-> IF i = k THEN t[k - 1] + ChunkCount(docs[k]) ELSE t[i]]
  <2>4. k \in Nat /\ k - 1 \in Nat
    BY <2>2
  <2>5. t = [i \in 0..(k - 1) |-> IF i = 0 THEN 0 ELSE t[i - 1] + ChunkCount(docs[i])]
    BY <2>3 DEF Totals
  <2>6. ASSUME NEW i \in 0..k
        PROVE  u[i] = IF i = 0 THEN 0 ELSE u[i - 1] + ChunkCount(docs[i])
    <3>1. CASE i = k
      BY <2>2, <2>4, <3>1
    <3>2. CASE i # k
      <4>1. i \in 0..(k - 1) /\ (i # 0 => i - 1 \in 0..(k - 1))
        BY <2>4, <3>2
      <4>2. u[i] = t[i] /\ (i # 0 => u[i - 1] = t[i - 1])
        BY <2>4, <3>2
      <4>3. t[i] = IF i = 0 THEN 0 ELSE t[i - 1] + ChunkCount(docs[i])
        BY <2>5, <4>1
      <4> QED BY <4>2, <4>3
    <3> QED BY <3>1, <3>2
  <2> HIDE DEF Bad
  <2>7. u = [i \in 0..k |-> u[i]]
    OBVIOUS
  <2> HIDE DEF u
  <2>8. Totals(u, docs, k)
    BY <2>6, <2>7 DEF Totals
  <2> QED BY <2>1, <2>8 DEF Bad
<1> QED BY <1>1

LEMMA TotalsAgree ==
  ASSUME NEW docs, NEW more, NEW n \in Nat, NEW m \in Nat, n <= m,
         \A i \in 1..n : docs[i] = more[i],
         NEW t, Totals(t, docs, n), NEW u, Totals(u, more, m)
  PROVE  t[n] = u[n]
<1> DEFINE Bad == {k \in 0..n : t[k] # u[k]}
<1>1. t = [i \in 0..n |-> IF i = 0 THEN 0 ELSE t[i - 1] + ChunkCount(docs[i])]
  BY DEF Totals
<1>2. u = [i \in 0..m |-> IF i = 0 THEN 0 ELSE u[i - 1] + ChunkCount(more[i])]
  BY DEF Totals
<1>3. ASSUME Bad # {}
      PROVE  FALSE
  <2>0. Bad \subseteq Nat
    OBVIOUS
  <2>1. PICK k \in Bad : \A j \in Bad : k <= j
    BY <1>3, <2>0, LeastOfNat
  <2>2. k # 0
    BY <1>1, <1>2, <2>1
  <2>3. k - 1 \in 0..n /\ k \in 1..n /\ k \in 0..m
    BY <2>1, <2>2
  <2>4. k - 1 \notin Bad
    BY <2>1, <2>3
  <2>5. t[k - 1] = u[k - 1]
    BY <2>3, <2>4
  <2>6. t[k] = t[k - 1] + ChunkCount(docs[k]) /\ u[k] = u[k - 1] + ChunkCount(more[k])
    BY <1>1, <1>2, <2>2, <2>3
  <2> QED BY <2>1, <2>3, <2>5, <2>6
<1> QED BY <1>3

LEMMA TotalIs ==
  ASSUME NEW docs, Len(docs) \in Nat
  PROVE  \E t : Totals(t, docs, Len(docs)) /\ TotalChunks(docs) = t[Len(docs)]
<1> DEFINE t == CHOOSE u : Totals(u, docs, Len(docs))
<1>1. Totals(t, docs, Len(docs))
  BY TotalsExist
<1>2. TotalChunks(docs) = t[Len(docs)]
  BY DEF TotalChunks, Totals
<1> QED BY <1>1, <1>2

\* One document more is its chunks more.
LEMMA TotalAppend ==
  ASSUME NEW docs \in Seq(Docs), NEW d
  PROVE  TotalChunks(Append(docs, d)) = TotalChunks(docs) + ChunkCount(d)
<1> DEFINE n == Len(docs)
           more == Append(docs, d)
<1>1. n \in Nat /\ Len(more) = n + 1 /\ more[n + 1] = d /\ \A i \in 1..n : docs[i] = more[i]
  OBVIOUS
<1> HIDE DEF n, more
<1>2. PICK t : Totals(t, docs, n) /\ TotalChunks(docs) = t[n]
  BY <1>1, TotalIs DEF n
<1>3. PICK u : Totals(u, more, n + 1) /\ TotalChunks(more) = u[n + 1]
  <2>1. n + 1 \in Nat
    BY <1>1
  <2> QED BY <1>1, <2>1, TotalIs
<1>4. t[n] = u[n]
  <2>1. n + 1 \in Nat /\ n <= n + 1
    BY <1>1
  <2> QED BY <1>1, <1>2, <1>3, <2>1, TotalsAgree
<1>5. u[n + 1] = u[n] + ChunkCount(more[n + 1])
  <2>1. u = [i \in 0..(n + 1) |-> IF i = 0 THEN 0 ELSE u[i - 1] + ChunkCount(more[i])]
    BY <1>3 DEF Totals
  <2>2. PICK m \in Nat : m = n + 1
    BY <1>1
  <2>3. m \in 0..(n + 1) /\ m # 0 /\ m - 1 = n
    BY <1>1, <2>2
  <2>4. u[m] = u[m - 1] + ChunkCount(more[m])
    BY <2>1, <2>3
  <2> QED BY <2>2, <2>3, <2>4
<1> QED BY <1>1, <1>2, <1>3, <1>4, <1>5 DEF more

LEMMA TotalOfNone == TotalChunks(<<>>) = 0
<1>1. PICK t : Totals(t, <<>>, 0) /\ TotalChunks(<<>>) = t[0]
  BY TotalIs
<1> QED BY <1>1 DEF Totals

LEMMA TotalType ==
  ASSUME NEW docs \in Seq(Docs)
  PROVE  TotalChunks(docs) \in Nat
<1> DEFINE n == Len(docs)
<1>1. n \in Nat /\ \A i \in 1..n : ChunkCount(docs[i]) \in Nat
  BY ChunkCountType
<1> HIDE DEF n
<1>2. PICK t : Totals(t, docs, n) /\ TotalChunks(docs) = t[n]
  BY <1>1, TotalIs DEF n
<1>3. t = [i \in 0..n |-> IF i = 0 THEN 0 ELSE t[i - 1] + ChunkCount(docs[i])]
  BY <1>2 DEF Totals
<1> DEFINE Bad == {k \in 0..n : t[k] \notin Nat}
<1>4. ASSUME Bad # {}
      PROVE  FALSE
  <2>0. Bad \subseteq Nat
    BY <1>1
  <2>1. PICK k \in Bad : \A j \in Bad : k <= j
    BY <1>4, <2>0, LeastOfNat
  <2>2. k # 0
    BY <1>1, <1>3, <2>1
  <2>3. k - 1 \in 0..n /\ k \in 1..n
    BY <1>1, <2>1, <2>2
  <2>4. t[k - 1] \in Nat
    BY <2>1, <2>3
  <2>5. t[k] = t[k - 1] + ChunkCount(docs[k])
    BY <1>3, <2>2, <2>3
  <2> QED BY <1>1, <2>1, <2>3, <2>4, <2>5
<1> QED BY <1>1, <1>2, <1>4

-----------------------------------------------------------------------------
(* Putting in order.  Pairs that already come in the order of their          *)
(* positions, without gaps, stay where they are.                             *)

LEMMA RankIs ==
  ASSUME NEW S, NEW pairs \in Seq(S), \A k \in DOMAIN pairs : pairs[k][1] = k,
         NEW k \in DOMAIN pairs
  PROVE  Cardinality({q \in ToSet(pairs) : q[1] < k}) = k - 1
<1> DEFINE T == {q \in ToSet(pairs) : q[1] < k}
           f == [i \in 1..(k - 1) |-> pairs[i]]
<1>1. k \in Nat \ {0} /\ k - 1 \in Nat /\ \A i \in 1..(k - 1) : i \in DOMAIN pairs /\ i < k
  OBVIOUS
<1>2. \A i \in 1..(k - 1) : f[i] = pairs[i] /\ f[i][1] = i
  BY <1>1
<1>3. f \in [1..(k - 1) -> T]
  BY <1>1, <1>2 DEF ToSet
<1>4. \A q \in T : \E i \in 1..(k - 1) : f[i] = q
  <2> SUFFICES ASSUME NEW q \in T
               PROVE  \E i \in 1..(k - 1) : f[i] = q
    OBVIOUS
  <2>1. PICK i \in DOMAIN pairs : q = pairs[i]
    BY DEF ToSet
  <2>2. i \in 1..(k - 1)
    BY <2>1, <1>1
  <2> QED BY <2>1, <2>2
<1>5. f \in Surjection(1..(k - 1), T)
  BY <1>3, <1>4 DEF Surjection
<1>6. \A i, j \in 1..(k - 1) : f[i] = f[j] => i = j
  BY <1>2
<1> HIDE DEF f
<1>7. f \in Injection(1..(k - 1), T)
  BY <1>3, <1>6 DEF Injection, IsInjective
<1>8. IsFiniteSet(1..(k - 1)) /\ Cardinality(1..(k - 1)) = k - 1
  BY <1>1, FS_Interval
<1> QED BY <1>5, <1>7, <1>8, FS_Surjection

LEMMA InOrderIs ==
  ASSUME NEW S, NEW pairs \in Seq(S), \A k \in DOMAIN pairs : pairs[k][1] = k
  PROVE  InOrder(pairs) = [k \in DOMAIN pairs |-> pairs[k][2]]
<1> DEFINE Rank(p) == Cardinality({q \in ToSet(pairs) : q[1] < p[1]})
<1>1. \A k \in DOMAIN pairs : Rank(pairs[k]) = k - 1
  BY RankIs
<1> HIDE DEF Rank
<1>2. ASSUME NEW k \in DOMAIN pairs
      PROVE  (CHOOSE p \in ToSet(pairs) : Rank(p) = k - 1) = pairs[k]
  <2>1. pairs[k] \in ToSet(pairs)
    BY DEF ToSet
  <2>2. ASSUME NEW p \in ToSet(pairs), Rank(p) = k - 1
        PROVE  p = pairs[k]
    <3>1. PICK i \in DOMAIN pairs : p = pairs[i]
      BY DEF ToSet
    <3>2. i - 1 = k - 1
      BY <1>1, <2>2, <3>1
    <3>3. i = k
      BY <3>2
    <3> QED BY <3>1, <3>3
  <2> QED BY <1>1, <2>1, <2>2
<1>3. InOrder(pairs) =
        [k \in DOMAIN pairs |-> (CHOOSE p \in ToSet(pairs) : Rank(p) = k - 1)[2]]
  BY DEF InOrder, Rank
<1> QED BY <1>2, <1>3

-----------------------------------------------------------------------------
(* The inductive invariant of a load *)

Pair == Nat \X Docs
Thread == [at : Nat \ {0}, upto : Nat, out : Seq(Pair), error : BOOLEAN]

Types ==
  /\ disk \in Seq(Files \cup {Absent})
  /\ seen \in [DOMAIN disk -> SUBSET (Files \cup {Absent})]
  /\ \A e \in DOMAIN disk : disk[e] \in seen[e]
  /\ edits \in 0..MaxEdits
  /\ command \in [kind : Commands, level : Level, threads : Threads]
  /\ pc \in {"walk", "join", "leave", "done"} /\ pass \in {"estimate", "rebuild"}
  /\ todo \subseteq DOMAIN disk /\ paths \in Seq(DOMAIN disk)
  /\ batches \in Seq(Thread)
  /\ joined \in 0..Len(batches) /\ loaded \in Seq(Pair)
  /\ failed \in Nat /\ estimate \in Nat
  /\ outcome \in {"none", "error", "refused", "indexed", "suggests-fts+vector",
                  "suggests-fts", "suggests-nothing"}

\* A result of position i is what the path held at some moment of this load.
ResultOf(pair, i) ==
  pair[1] = i /\ \E f \in seen[paths[i]] \ {Absent} : pair[2] = Document(f)

\* A thread has a result for each position of its batch before the next one,
\* and has failed at the next one or not at all.
BatchOK(b) ==
  /\ First(batches, b) <= batches[b].at /\ batches[b].at <= batches[b].upto + 1
  /\ batches[b].upto <= Len(paths)
  /\ Len(batches[b].out) = batches[b].at - First(batches, b)
  /\ \A k \in DOMAIN batches[b].out : ResultOf(batches[b].out[k], First(batches, b) + k - 1)
  /\ batches[b].error => /\ batches[b].at <= batches[b].upto
                         /\ Absent \in seen[paths[batches[b].at]]

Batched ==
  /\ batches # <<>> => batches[Len(batches)].upto = Len(paths)
  /\ \A b \in DOMAIN batches : BatchOK(b)

\* The threads joined so far are complete, and their results are in order.
Joined ==
  /\ \A b \in 1..joined : ~batches[b].error /\ batches[b].at = batches[b].upto + 1
  /\ Len(loaded) + 1 = First(batches, joined + 1)
  /\ \A k \in DOMAIN loaded : ResultOf(loaded[k], k)

Placed ==
  /\ pc = "walk" => batches = <<>> /\ joined = 0 /\ loaded = <<>>
  /\ pc = "join" /\ batches = <<>> => paths = <<>>
  /\ pc \in {"walk", "join"} => failed = 0
  /\ failed <= Len(paths)
  /\ pc = "leave" => /\ joined < Len(batches)
                     /\ batches[joined + 1].error /\ failed = batches[joined + 1].at
  /\ pc = "done" => \A b \in DOMAIN batches : ~Running(batches[b])

DInv == Types /\ Batched /\ Joined /\ Placed

-----------------------------------------------------------------------------
LEMMA DocumentType ==
  ASSUME NEW f \in Files
  PROVE  Document(f) \in Docs
BY DEF Document, Docs, Body

LEMMA Fields ==
  ASSUME Types, NEW b \in DOMAIN batches
  PROVE  /\ batches[b] \in Thread
         /\ batches[b].at \in Nat \ {0} /\ batches[b].upto \in Nat
         /\ batches[b].out \in Seq(Pair) /\ batches[b].error \in BOOLEAN
<1>1. batches[b] \in Thread
  BY DEF Types
<1> QED BY <1>1 DEF Thread

LEMMA FirstType ==
  ASSUME Types, NEW b \in 1..(Len(batches) + 1)
  PROVE  First(batches, b) \in Nat \ {0}
<1>1. b # 1 => b - 1 \in DOMAIN batches
  BY DEF Types
<1>2. b # 1 => batches[b - 1].upto \in Nat
  BY <1>1, Fields
<1> QED BY <1>2 DEF First

\* No more is loaded than there are paths.
LEMMA LoadedFits ==
  ASSUME Types, Batched, Joined
  PROVE  Len(loaded) \in 0..Len(paths)
<1>1. Len(loaded) \in Nat /\ Len(paths) \in Nat /\ joined \in 0..Len(batches)
  BY DEF Types
<1>2. CASE joined = 0
  BY <1>1, <1>2 DEF Joined, First
<1>3. CASE joined # 0
  <2>1. joined \in DOMAIN batches /\ joined + 1 # 1
    BY <1>1, <1>3 DEF Types
  <2>2. batches[joined].upto <= Len(paths) /\ batches[joined].upto \in Nat
    BY <2>1, Fields DEF Batched, BatchOK
  <2>3. First(batches, joined + 1) = batches[joined].upto + 1
    BY <2>1, <1>1 DEF First
  <2> QED BY <1>1, <2>2, <2>3 DEF Joined
<1> QED BY <1>2, <1>3

LEMMA InitDInv == Init => DInv
<1> SUFFICES ASSUME Init PROVE DInv
  OBVIOUS
<1>1. disk \in Seq(Files) /\ \A e \in DOMAIN disk : disk[e] \in Files
  BY DocumentLoaderAssumption DEF Init
<1>2. disk \in Seq(Files \cup {Absent})
  BY <1>1
<1>3. seen = [e \in DOMAIN disk |-> {disk[e]}]
  BY DEF Init
<1>4. seen \in [DOMAIN disk -> SUBSET (Files \cup {Absent})] /\ \A e \in DOMAIN disk : disk[e] \in seen[e]
  BY <1>1, <1>3
<1>5. edits \in 0..MaxEdits
  BY DocumentLoaderAssumption DEF Init
<1>6. Types
  BY <1>2, <1>4, <1>5 DEF Init, Types, Existing
<1> QED BY <1>6 DEF DInv, Init, Batched, Joined, Placed, First

\* As long as nothing but what is seen changes, and that grows, what has been
\* loaded stays right.
LEMMA SeenGrows ==
  ASSUME Types, Batched, Joined, UNCHANGED <<paths, batches, joined, loaded>>,
         \A e \in DOMAIN disk : seen[e] \subseteq seen'[e]
  PROVE  Batched' /\ Joined'
<1>1. ASSUME NEW pair, NEW i \in 1..Len(paths), ResultOf(pair, i)
      PROVE  ResultOf(pair, i)'
  <2>1. paths[i] \in DOMAIN disk
    BY DEF Types
  <2> QED BY <1>1, <2>1 DEF ResultOf
<1>2. ASSUME NEW b \in DOMAIN batches
      PROVE  BatchOK(b)'
  <2>1. BatchOK(b)
    BY DEF Batched
  <2>2. First(batches, b) \in Nat \ {0} /\ batches[b].at \in Nat \ {0} /\ batches[b].upto \in Nat
        /\ batches[b].out \in Seq(Pair) /\ Len(paths) \in Nat
    <3>1. b \in 1..(Len(batches) + 1)
      BY DEF Types
    <3> QED BY <3>1, Fields, FirstType DEF Types
  <2>3. \A k \in DOMAIN batches[b].out : First(batches, b) + k - 1 \in 1..Len(paths)
    BY <2>1, <2>2 DEF BatchOK
  <2>4. \A k \in DOMAIN batches[b].out :
          ResultOf(batches[b].out[k], First(batches, b) + k - 1)'
    BY <1>1, <2>1, <2>3 DEF BatchOK
  <2>5. batches[b].error => Absent \in seen'[paths[batches[b].at]]
    <3> SUFFICES ASSUME batches[b].error PROVE Absent \in seen'[paths[batches[b].at]]
      OBVIOUS
    <3>1. batches[b].at \in 1..Len(paths) /\ Absent \in seen[paths[batches[b].at]]
      BY <2>1, <2>2 DEF BatchOK
    <3>2. paths[batches[b].at] \in DOMAIN disk
      BY <3>1 DEF Types
    <3> QED BY <3>1, <3>2
  <2> QED BY <2>1, <2>4, <2>5 DEF BatchOK, First
<1>3. \A k \in DOMAIN loaded : ResultOf(loaded[k], k)'
  <2>1. \A k \in DOMAIN loaded : k \in 1..Len(paths)
    BY LoadedFits DEF Types
  <2> QED BY <1>1, <2>1 DEF Joined
<1>4. Joined'
  BY <1>3 DEF Joined, First
<1> QED BY <1>2, <1>4 DEF Batched

LEMMA MinIs ==
  ASSUME NEW S, S \subseteq Nat, S # {}
  PROVE  Min(S) \in S /\ \A y \in S : Min(S) <= y
<1>1. \E x \in S : \A y \in S : x <= y
  BY LeastOfNat
<1> QED BY <1>1 DEF Min

\* The entry the walk looks at.
LEMMA NextEntry ==
  ASSUME Types, todo # {}
  PROVE  Min(todo) \in todo /\ Min(todo) \in DOMAIN disk /\ \A e \in todo : Min(todo) <= e
<1>1. todo \subseteq DOMAIN disk /\ todo \subseteq Nat
  BY DEF Types
<1> QED BY <1>1, MinIs

\* What a load returns, in order.
LEMMA DocumentsAre ==
  ASSUME Types, Joined
  PROVE  /\ Documents = [k \in DOMAIN loaded |-> loaded[k][2]]
         /\ Documents \in Seq(Docs)
<1>1. loaded \in Seq(Pair) /\ \A k \in DOMAIN loaded : loaded[k][1] = k
  BY DEF Types, Joined, ResultOf
<1>2. Documents = [k \in DOMAIN loaded |-> loaded[k][2]]
  BY <1>1, InOrderIs DEF Documents
<1>3. \A k \in DOMAIN loaded : loaded[k][2] \in Docs
  BY <1>1 DEF Pair
<1>4. DOMAIN loaded = 1..Len(loaded) /\ Len(loaded) \in Nat
  BY <1>1
<1> QED BY <1>2, <1>3, <1>4

\* What a thread becomes when it has read a file.
LEMMA AfterReadIs ==
  ASSUME NEW t \in Thread, NEW f \in Files \cup {Absent}
  PROVE  /\ AfterRead(t, f) \in Thread /\ AfterRead(t, f).upto = t.upto
         /\ f = Absent => /\ AfterRead(t, f).error
                          /\ AfterRead(t, f).at = t.at /\ AfterRead(t, f).out = t.out
         /\ f # Absent => /\ AfterRead(t, f).error = t.error
                          /\ AfterRead(t, f).at = t.at + 1
                          /\ AfterRead(t, f).out = Append(t.out, <<t.at, Document(f)>>)
<1>1. t.at \in Nat \ {0} /\ t.upto \in Nat /\ t.out \in Seq(Pair) /\ t.error \in BOOLEAN
  BY DEF Thread
<1>2. CASE f = Absent
  <2>1. AfterRead(t, f) = [t EXCEPT !.error = TRUE]
    BY <1>2 DEF AfterRead
  <2> QED BY <1>2, <2>1 DEF Thread
<1>3. CASE f # Absent
  <2> DEFINE d == Document(f)
  <2>1. d \in Docs
    BY <1>3, DocumentType
  <2>2. AfterRead(t, f) = [t EXCEPT !.at = @ + 1, !.out = Append(@, <<t.at, d>>)]
    BY <1>3 DEF AfterRead
  <2> HIDE DEF d
  <2>3. Append(t.out, <<t.at, d>>) \in Seq(Pair) /\ t.at + 1 \in Nat \ {0}
    BY <1>1, <2>1 DEF Pair
  <2>4. AfterRead(t, f).error = t.error /\ AfterRead(t, f).upto = t.upto
    BY <2>2 DEF Thread
  <2>5. AfterRead(t, f).at = t.at + 1 /\ AfterRead(t, f).out = Append(t.out, <<t.at, d>>)
    BY <2>2 DEF Thread
  <2>6. AfterRead(t, f) \in Thread
    <3>1. AfterRead(t, f) = [at |-> t.at + 1, upto |-> t.upto,
                             out |-> Append(t.out, <<t.at, d>>), error |-> t.error]
      BY <2>2 DEF Thread
    <3> QED BY <1>1, <2>3, <3>1 DEF Thread
  <2> QED BY <1>3, <2>4, <2>5, <2>6 DEF d
<1> QED BY <1>2, <1>3

\* A thread that runs is at a path.
LEMMA RunningAt ==
  ASSUME Types, Batched, NEW b \in DOMAIN batches, Running(batches[b])
  PROVE  batches[b].at \in 1..Len(paths) /\ paths[batches[b].at] \in DOMAIN disk
<1>1. batches[b].at \in Nat \ {0} /\ batches[b].upto \in Nat
  BY Fields
<1>2. batches[b].at <= batches[b].upto /\ batches[b].upto <= Len(paths)
  BY DEF Running, Batched, BatchOK
<1>3. Len(paths) \in Nat
  BY DEF Types
<1>4. batches[b].at \in 1..Len(paths)
  BY <1>1, <1>2, <1>3
<1> QED BY <1>4 DEF Types

-----------------------------------------------------------------------------
(* Each step preserves the invariant *)

LEMMA ChangeDInv ==
  ASSUME DInv, NEW e \in DOMAIN disk, NEW now \in Versions \cup {Absent}, Change(e, now)
  PROVE  DInv'
<1>1. /\ disk' = [disk EXCEPT ![e] = now] /\ seen' = [seen EXCEPT ![e] = @ \cup {now}]
      /\ edits' = edits + 1 /\ edits < MaxEdits /\ UNCHANGED <<pc, main, batches>>
  BY DEF Change
<1>2. now \in Files \cup {Absent}
  BY DEF Files
<1>3. Types'
  <2>1. /\ disk \in Seq(Files \cup {Absent})
        /\ seen \in [DOMAIN disk -> SUBSET (Files \cup {Absent})]
        /\ \A d \in DOMAIN disk : disk[d] \in seen[d]
        /\ edits \in 0..MaxEdits
    BY DEF DInv, Types
  <2>2. disk' \in Seq(Files \cup {Absent}) /\ DOMAIN disk' = DOMAIN disk
    BY <1>1, <1>2, <2>1
  <2>3. seen' \in [DOMAIN disk' -> SUBSET (Files \cup {Absent})]
    BY <1>1, <1>2, <2>1, <2>2
  <2>4. \A d \in DOMAIN disk' : disk'[d] \in seen'[d]
    BY <1>1, <1>2, <2>1, <2>2
  <2>5. edits' \in 0..MaxEdits
    BY <1>1, <2>1, DocumentLoaderAssumption
  <2> QED BY <1>1, <2>2, <2>3, <2>4, <2>5 DEF DInv, Types, main
<1>4. Batched' /\ Joined'
  <2>1. \A d \in DOMAIN disk : seen[d] \subseteq seen'[d]
    BY <1>1 DEF DInv, Types
  <2> QED BY <1>1, <2>1, SeenGrows DEF DInv, main
<1>5. Placed'
  BY <1>1 DEF DInv, Placed, main, Running
<1> QED BY <1>3, <1>4, <1>5 DEF DInv

LEMMA LookDInv == DInv /\ Look => DInv'
<1> SUFFICES ASSUME DInv, Look PROVE DInv'
  OBVIOUS
<1>1. /\ pc = "walk" /\ todo # {} /\ UNCHANGED <<disk, edits, batches, seen>>
      /\ batches = <<>> /\ joined = 0 /\ loaded = <<>> /\ failed = 0
  BY DEF Look, DInv, Placed
<1>2. Min(todo) \in DOMAIN disk
  BY NextEntry, <1>1 DEF DInv
<1>3. CASE disk[Min(todo)] = Absent
  <2>1. Fail
    BY <1>3 DEF Look
  <2>2. Types'
    BY <1>1, <2>1 DEF Fail, DInv, Types
  <2>3. Batched' /\ Joined'
    BY <1>1, <2>1, SeenGrows DEF Fail, DInv
  <2>4. Placed'
    BY <1>1, <2>1 DEF Fail, DInv, Placed
  <2> QED BY <2>2, <2>3, <2>4 DEF DInv
<1>4. CASE disk[Min(todo)] # Absent
  <2>1. /\ paths' = IF IsCandidate(disk[Min(todo)]) THEN Append(paths, Min(todo)) ELSE paths
        /\ todo' = todo \ {Min(todo)}
        /\ UNCHANGED <<pc, command, pass, joined, loaded, failed, estimate, outcome>>
    BY <1>4 DEF Look
  <2>2. paths' \in Seq(DOMAIN disk)
    <3>1. paths \in Seq(DOMAIN disk)
      BY DEF DInv, Types
    <3>2. Append(paths, Min(todo)) \in Seq(DOMAIN disk)
      BY <1>2, <3>1
    <3> QED BY <2>1, <3>1, <3>2
  <2>3. Types'
    BY <1>1, <2>1, <2>2 DEF DInv, Types
  <2>4. Len(paths') \in Nat
    BY <2>2
  <2> QED BY <1>1, <2>1, <2>3, <2>4 DEF DInv, Batched, Joined, Placed, First
<1> QED BY <1>3, <1>4

LEMMA SpawnDInv == DInv /\ Spawn => DInv'
<1> SUFFICES ASSUME DInv, Spawn PROVE DInv'
  OBVIOUS
<1>1. /\ pc = "walk" /\ pc' = "join" /\ UNCHANGED <<disk, edits, main, seen>>
      /\ batches' = IF paths = <<>> THEN <<>> ELSE Batches(Len(paths), command.threads)
      /\ joined = 0 /\ loaded = <<>> /\ failed = 0
  BY DEF Spawn, DInv, Placed
<1>2. paths \in Seq(DOMAIN disk) /\ command.threads \in Threads
  BY DEF DInv, Types
<1>3. CASE paths = <<>>
  <2>1. batches' = <<>>
    BY <1>1, <1>3
  <2>2. batches' \in Seq(Thread) /\ 0 \in 0..Len(batches')
    BY <2>1
  <2>3. Types'
    BY <1>1, <2>2 DEF DInv, Types, main
  <2> QED BY <1>1, <1>3, <2>1, <2>3 DEF DInv, Batched, Joined, Placed, First, main
<1>4. CASE paths # <<>>
  <2>1. Len(paths) \in Nat \ {0}
    BY <1>2, <1>4
  <2>2. /\ batches' \in Seq(Fresh)
        /\ batches' # <<>> /\ batches'[Len(batches')].upto = Len(paths)
        /\ \A b \in DOMAIN batches' : /\ batches'[b].at = First(batches', b)
                                      /\ batches'[b].at <= batches'[b].upto + 1
                                      /\ batches'[b].upto <= Len(paths)
    <3> DEFINE bs == Batches(Len(paths), command.threads)
    <3>1. batches' = bs
      BY <1>1, <1>4
    <3> HIDE DEF bs
    <3>2. bs = Batches(Len(paths), command.threads)
      BY DEF bs
    <3> QED BY <1>2, <2>1, <3>1, <3>2, BatchesAre
  <2>3. \A b \in DOMAIN batches' : /\ batches'[b].at \in Nat \ {0} /\ batches'[b].upto \in Nat
                                   /\ batches'[b].out = <<>> /\ batches'[b].error = FALSE
                                   /\ batches'[b] \in Thread
    <3>1. \A b \in DOMAIN batches' : batches'[b] \in Fresh
      BY <2>2
    <3>2. \A t \in Fresh : /\ t.at \in Nat \ {0} /\ t.upto \in Nat
                           /\ t.out = <<>> /\ t.error = FALSE
                           /\ t \in Thread
      <4>1. <<>> \in Seq(Pair)
        OBVIOUS
      <4> QED BY <4>1 DEF Fresh, Thread
    <3> QED BY <3>1, <3>2
  <2>4. batches' \in Seq(Thread)
    BY <2>2, <2>3
  <2>5. Types'
    BY <1>1, <2>4 DEF DInv, Types, main
  <2>6. Batched'
    <3> SUFFICES ASSUME NEW b \in DOMAIN batches' PROVE BatchOK(b)'
      BY <1>1, <2>2 DEF Batched, main
    <3>1. First(batches', b) \in Nat /\ Len(<<>>) = 0 /\ DOMAIN <<>> = {}
      BY <2>2, <2>3
    <3> QED BY <1>1, <2>2, <2>3, <3>1 DEF BatchOK, main
  <2>7. Joined'
    BY <1>1 DEF Joined, First, main
  <2>8. Placed'
    BY <1>1, <2>1, <2>2 DEF Placed, main
  <2> QED BY <2>5, <2>6, <2>7, <2>8 DEF DInv
<1> QED BY <1>3, <1>4

LEMMA ReadDInv ==
  ASSUME DInv, NEW b \in DOMAIN batches, Read(b)
  PROVE  DInv'
<1> DEFINE old == batches[b]
           f   == disk[paths[old.at]]
           new == AfterRead(old, f)
<1>1. /\ pc \in {"join", "leave"} /\ Running(old) /\ UNCHANGED <<disk, edits, pc, main, seen>>
      /\ batches' = [batches EXCEPT ![b] = new]
  BY DEF Read
<1>2. /\ old \in Thread /\ old.at \in Nat \ {0} /\ old.upto \in Nat /\ old.out \in Seq(Pair)
      /\ old.at \in 1..Len(paths) /\ paths[old.at] \in DOMAIN disk
      /\ batches \in Seq(Thread) /\ joined \in 0..Len(batches)
  BY <1>1, Fields, RunningAt DEF DInv, Types
<1>3. f \in seen[paths[old.at]] /\ f \in Files \cup {Absent}
  BY <1>2 DEF DInv, Types
<1>4. /\ new \in Thread /\ new.upto = old.upto
      /\ f = Absent => new.error /\ new.at = old.at /\ new.out = old.out
      /\ f # Absent => /\ new.error = old.error /\ new.at = old.at + 1
                       /\ new.out = Append(old.out, <<old.at, Document(f)>>)
  BY <1>2, <1>3, AfterReadIs
<1>5. ~old.error /\ old.at <= old.upto
  BY <1>1 DEF Running
<1>6. BatchOK(b)
  BY DEF DInv, Batched
<1>7. b \in 1..(Len(batches) + 1) /\ First(batches, b) \in Nat \ {0}
  BY <1>2, FirstType DEF DInv
<1> HIDE DEF old, f, new
<1>8. /\ batches' \in Seq(Thread) /\ Len(batches') = Len(batches)
      /\ DOMAIN batches' = DOMAIN batches /\ batches'[b] = new
      /\ \A c \in DOMAIN batches : c # b => batches'[c] = batches[c]
  BY <1>1, <1>2, <1>4
<1>9. \A c \in 1..(Len(batches) + 1) : First(batches', c) = First(batches, c)
  <2> SUFFICES ASSUME NEW c \in 1..(Len(batches) + 1)
               PROVE  First(batches', c) = First(batches, c)
    OBVIOUS
  <2>1. \A d \in DOMAIN batches : batches'[d].upto = batches[d].upto
    BY <1>4, <1>8 DEF old
  <2>2. c # 1 => c - 1 \in DOMAIN batches
    BY <1>2
  <2> QED BY <2>1, <2>2 DEF First
<1>10. Types'
  BY <1>1, <1>8 DEF DInv, Types, main
<1>11. BatchOK(b)'
  <2>1. /\ First(batches, b) <= old.at /\ old.at <= old.upto + 1 /\ old.upto <= Len(paths)
        /\ Len(old.out) = old.at - First(batches, b)
        /\ \A k \in DOMAIN old.out : ResultOf(old.out[k], First(batches, b) + k - 1)
    BY <1>6 DEF BatchOK, old
  <2>2. UNCHANGED <<paths, seen>>
    BY <1>1 DEF main
  <2>3. /\ First(batches', b) <= new.at /\ new.at <= new.upto + 1 /\ new.upto <= Len(paths)
    BY <1>2, <1>4, <1>5, <1>7, <1>9, <2>1
  <2>4. Len(new.out) = new.at - First(batches, b)
    <3>1. CASE f = Absent
      BY <1>4, <2>1, <3>1
    <3>2. CASE f # Absent
      <4>1. Len(new.out) = Len(old.out) + 1
        BY <1>2, <1>4, <3>2
      <4>2. new.at = old.at + 1
        BY <1>4, <3>2
      <4> QED BY <1>2, <1>7, <2>1, <4>1, <4>2
    <3> QED BY <3>1, <3>2
  <2>5. \A k \in DOMAIN new.out : ResultOf(new.out[k], First(batches, b) + k - 1)
    <3>1. CASE f = Absent
      BY <1>4, <2>1, <3>1
    <3>2. CASE f # Absent
      <4> DEFINE pair == <<old.at, Document(f)>>
      <4>1. ResultOf(pair, old.at)
        BY <1>3, <3>2 DEF ResultOf
      <4>2. new.out = Append(old.out, pair)
        BY <1>4, <3>2
      <4> HIDE DEF pair
      <4>3. SUFFICES ASSUME NEW k \in DOMAIN new.out
                     PROVE  ResultOf(new.out[k], First(batches, b) + k - 1)
        OBVIOUS
      <4>4. CASE k \in DOMAIN old.out
        BY <1>2, <2>1, <4>2, <4>4
      <4>5. CASE k \notin DOMAIN old.out
        <5>1. k = Len(old.out) + 1 /\ new.out[k] = pair
          BY <1>2, <4>2, <4>3, <4>5
        <5>2. First(batches, b) + k - 1 = old.at
          BY <1>2, <1>7, <2>1, <5>1
        <5> QED BY <4>1, <5>1, <5>2
      <4> QED BY <4>4, <4>5
    <3> QED BY <3>1, <3>2
  <2>6. new.error => new.at <= new.upto /\ Absent \in seen[paths[new.at]]
    BY <1>3, <1>4, <1>5
  <2> QED BY <1>7, <1>8, <1>9, <2>2, <2>3, <2>4, <2>5, <2>6 DEF BatchOK, ResultOf
<1>12. Batched'
  <2>1. ASSUME NEW c \in DOMAIN batches, c # b
        PROVE  BatchOK(c)'
    <3>1. BatchOK(c) /\ First(batches', c) = First(batches, c) /\ batches'[c] = batches[c]
      BY <1>2, <1>8, <1>9, <2>1 DEF DInv, Batched
    <3> QED BY <1>1, <3>1 DEF BatchOK, ResultOf, main
  <2>2. batches' # <<>> /\ Len(batches) \in DOMAIN batches
    BY <1>2, <1>7, <1>8
  <2>3. batches'[Len(batches)].upto = Len(paths)
    <3>1. batches[Len(batches)].upto = Len(paths)
      BY <1>2, <1>7 DEF DInv, Batched
    <3> QED BY <1>4, <1>8, <2>2, <3>1 DEF old
  <2> QED BY <1>1, <1>8, <1>11, <2>1, <2>3 DEF Batched, main
<1>13. \A c \in 1..joined : c # b
  <2>1. \A c \in 1..joined : batches[c].at = batches[c].upto + 1
    BY DEF DInv, Joined
  <2> QED BY <1>2, <1>5, <2>1 DEF old
<1>14. Joined'
  <2>1. joined + 1 \in 1..(Len(batches) + 1) /\ 1..joined \subseteq DOMAIN batches
    BY <1>2
  <2> QED BY <1>1, <1>8, <1>9, <1>13, <2>1 DEF DInv, Joined, ResultOf, main
<1>15. Placed'
  <2>1. pc = "leave" => joined + 1 \in DOMAIN batches /\ joined + 1 # b
    BY <1>2, <1>5 DEF DInv, Placed, old
  <2>2. batches # <<>> /\ batches' # <<>>
    BY <1>2, <1>7, <1>8
  <2> QED BY <1>1, <1>8, <2>1, <2>2 DEF DInv, Placed, main
<1> QED BY <1>10, <1>12, <1>14, <1>15 DEF DInv

LEMMA JoinDInv == DInv /\ Join => DInv'
<1> SUFFICES ASSUME DInv, Join PROVE DInv'
  OBVIOUS
<1> DEFINE b == joined + 1
<1>1. /\ pc = "join" /\ joined < Len(batches) /\ ~Running(batches[b])
      /\ UNCHANGED <<disk, edits, command, pass, todo, paths, batches, estimate, outcome, seen>>
      /\ IF batches[b].error
         THEN /\ pc' = "leave" /\ failed' = batches[b].at
              /\ UNCHANGED <<joined, loaded>>
         ELSE /\ joined' = joined + 1 /\ loaded' = loaded \o batches[b].out
              /\ UNCHANGED <<pc, failed>>
  BY DEF Join
<1>2. joined \in 0..Len(batches) /\ Len(batches) \in Nat /\ b \in DOMAIN batches /\ batches # <<>>
  BY <1>1 DEF DInv, Types
<1>3. /\ batches[b].at \in Nat \ {0} /\ batches[b].upto \in Nat
      /\ batches[b].out \in Seq(Pair) /\ batches[b].error \in BOOLEAN
  BY <1>2, Fields DEF DInv
<1>4. BatchOK(b)
  BY <1>2 DEF DInv, Batched
<1>5. loaded \in Seq(Pair) /\ Len(loaded) + 1 = First(batches, b)
  BY DEF DInv, Types, Joined
<1>6. Batched'
  BY <1>1 DEF DInv, Batched, BatchOK, First, ResultOf
<1>7. CASE batches[b].error
  <2>1. pc' = "leave" /\ failed' = batches[b].at /\ UNCHANGED <<joined, loaded>>
    BY <1>1, <1>7
  <2>2. Types'
    BY <1>1, <1>3, <2>1 DEF DInv, Types
  <2>3. Joined'
    BY <1>1, <2>1 DEF DInv, Joined, First, ResultOf
  <2>4. failed' <= Len(paths)
    <3>1. batches[b].at <= batches[b].upto /\ batches[b].upto <= Len(paths)
      BY <1>4, <1>7 DEF BatchOK
    <3>2. Len(paths) \in Nat
      BY DEF DInv, Types
    <3> QED BY <1>3, <2>1, <3>1, <3>2
  <2>5. Placed'
    BY <1>1, <1>7, <2>1, <2>4 DEF Placed
  <2> QED BY <1>6, <2>2, <2>3, <2>5 DEF DInv
<1>8. CASE ~batches[b].error
  <2>1. /\ joined' = b /\ loaded' = loaded \o batches[b].out
        /\ UNCHANGED <<pc, failed>>
    BY <1>1, <1>8
  <2>2. batches[b].at = batches[b].upto + 1
    BY <1>1, <1>3, <1>4, <1>8 DEF Running, BatchOK
  <2>3. /\ loaded' \in Seq(Pair) /\ Len(loaded') = Len(loaded) + Len(batches[b].out)
        /\ \A k \in DOMAIN loaded : loaded'[k] = loaded[k]
        /\ \A k \in DOMAIN loaded' \ DOMAIN loaded :
             /\ k - Len(loaded) \in DOMAIN batches[b].out
             /\ loaded'[k] = batches[b].out[k - Len(loaded)]
    BY <1>3, <1>5, <2>1
  <2>4. Types'
    BY <1>1, <1>2, <2>1, <2>3 DEF DInv, Types
  <2>5. Len(loaded') + 1 = First(batches, b + 1)
    <3>1. First(batches, b + 1) = batches[b].upto + 1
      BY <1>2 DEF First
    <3>2. Len(batches[b].out) = batches[b].at - First(batches, b)
      BY <1>4 DEF BatchOK
    <3>3. Len(loaded) \in Nat /\ Len(batches[b].out) \in Nat
      BY <1>3, <1>5
    <3> QED BY <1>3, <1>5, <2>2, <2>3, <3>1, <3>2, <3>3
  <2>6. \A k \in DOMAIN loaded' : ResultOf(loaded'[k], k)
    <3> SUFFICES ASSUME NEW k \in DOMAIN loaded'
                 PROVE  ResultOf(loaded'[k], k)
      OBVIOUS
    <3>1. CASE k \in DOMAIN loaded
      BY <2>3, <3>1 DEF DInv, Joined
    <3>2. CASE k \notin DOMAIN loaded
      <4> DEFINE j == k - Len(loaded)
      <4>1. j \in DOMAIN batches[b].out /\ loaded'[k] = batches[b].out[j]
        BY <2>3, <3>2
      <4>2. ResultOf(batches[b].out[j], First(batches, b) + j - 1)
        BY <1>4, <4>1 DEF BatchOK
      <4>3. First(batches, b) + j - 1 = k
        <5>1. k \in Nat /\ Len(loaded) \in Nat
          BY <1>5, <2>3
        <5> QED BY <1>5, <5>1
      <4> QED BY <4>1, <4>2, <4>3
    <3> QED BY <3>1, <3>2
  <2>7. Joined'
    <3>1. \A c \in 1..b : ~batches[c].error /\ batches[c].at = batches[c].upto + 1
      <4>1. \A c \in 1..b : c = b \/ c \in 1..joined
        BY <1>2
      <4> QED BY <1>8, <2>2, <4>1 DEF DInv, Joined
    <3> QED BY <1>1, <2>1, <2>5, <2>6, <3>1 DEF Joined, First, ResultOf
  <2>8. Placed'
    BY <1>1, <1>2, <2>1 DEF DInv, Placed
  <2> QED BY <1>6, <2>4, <2>7, <2>8 DEF DInv
<1> QED BY <1>3, <1>7, <1>8

\* A whole load: a result for each path.
LEMMA WholeLoad ==
  ASSUME DInv, pc = "join", joined = Len(batches)
  PROVE  /\ Len(Documents) = Len(paths)
         /\ \A i \in DOMAIN paths :
              Documents[i] \in {Document(f) : f \in seen[paths[i]] \ {Absent}}
<1>1. Documents = [k \in DOMAIN loaded |-> loaded[k][2]]
  BY DocumentsAre DEF DInv
<1>2. loaded \in Seq(Pair) /\ paths \in Seq(DOMAIN disk) /\ batches \in Seq(Thread)
  BY DEF DInv, Types
<1>3. Len(loaded) = Len(paths)
  <2>1. CASE batches = <<>>
    BY <1>2, <2>1 DEF DInv, Joined, Placed, First
  <2>2. CASE batches # <<>>
    <3>1. Len(batches) \in DOMAIN batches /\ Len(batches) \in Nat \ {0}
      BY <1>2, <2>2
    <3>2. batches[Len(batches)].upto = Len(paths)
      BY <2>2 DEF DInv, Batched
    <3>3. First(batches, Len(batches) + 1) = Len(paths) + 1
      BY <3>1, <3>2 DEF First
    <3> QED BY <1>2, <3>3 DEF DInv, Joined
  <2> QED BY <2>1, <2>2
<1>4. Len(Documents) = Len(paths)
  BY <1>1, <1>2, <1>3
<1>5. ASSUME NEW i \in DOMAIN paths
      PROVE  Documents[i] \in {Document(f) : f \in seen[paths[i]] \ {Absent}}
  <2>1. i \in DOMAIN loaded
    BY <1>2, <1>3
  <2>2. ResultOf(loaded[i], i)
    BY <2>1 DEF DInv, Joined
  <2> QED BY <1>1, <2>1, <2>2 DEF ResultOf
<1> QED BY <1>4, <1>5

LEMMA LeaveDInv == DInv /\ Leave => DInv'
<1> SUFFICES ASSUME DInv, Leave PROVE DInv'
  OBVIOUS
<1>1. /\ pc' = "done" /\ outcome' = "error"
      /\ UNCHANGED <<disk, edits, batches, seen, command, pass, todo, paths, joined, loaded,
                     failed, estimate>>
      /\ \A b \in DOMAIN batches : ~Running(batches[b])
  BY DEF Leave, Fail
<1>2. Types'
  BY <1>1 DEF DInv, Types
<1>3. Batched' /\ Joined'
  BY <1>1, SeenGrows DEF DInv
<1>4. Placed'
  BY <1>1 DEF DInv, Placed
<1> QED BY <1>2, <1>3, <1>4 DEF DInv

LEMMA RebuildDInv == DInv /\ Rebuild => DInv'
<1> SUFFICES ASSUME DInv, Rebuild PROVE DInv'
  OBVIOUS
<1>1. /\ pc = "join" /\ joined = Len(batches) /\ pc' = "done" /\ outcome' = "indexed"
      /\ UNCHANGED <<disk, edits, batches, seen, command, pass, todo, paths, joined, loaded,
                     failed, estimate>>
  BY DEF Rebuild
<1>2. Types'
  BY <1>1 DEF DInv, Types
<1>3. Batched' /\ Joined'
  BY <1>1, SeenGrows DEF DInv
<1>4. \A b \in DOMAIN batches : ~Running(batches[b])
  <2> SUFFICES ASSUME NEW b \in DOMAIN batches PROVE ~Running(batches[b])
    OBVIOUS
  <2>1. b \in 1..joined
    BY <1>1 DEF DInv, Types
  <2>2. batches[b].at = batches[b].upto + 1 /\ batches[b].upto \in Nat
    BY <2>1, Fields DEF DInv, Joined
  <2> QED BY <2>2 DEF Running
<1>5. Placed'
  BY <1>1, <1>4 DEF DInv, Placed
<1> QED BY <1>2, <1>3, <1>5 DEF DInv

LEMMA EstimateDInv == DInv /\ Estimate => DInv'
<1> SUFFICES ASSUME DInv, Estimate PROVE DInv'
  OBVIOUS
<1>1. /\ pc = "join" /\ paths' = <<>> /\ batches' = <<>> /\ loaded' = <<>> /\ joined' = 0
      /\ seen' = [e \in DOMAIN disk |-> IF pc' = "walk" THEN {disk[e]} ELSE seen[e]]
      /\ UNCHANGED <<disk, edits, command, failed>>
      /\ estimate' = TotalChunks(Documents)
  BY DEF Estimate, Afresh
<1>2. /\ pc' \in {"walk", "done"} /\ pass' \in {"estimate", "rebuild"}
      /\ todo' \subseteq DOMAIN disk
      /\ outcome' \in {"none", "error", "refused", "indexed", "suggests-fts+vector",
                       "suggests-fts", "suggests-nothing"}
  <2>1. CASE command.kind = "search"
    BY <2>1 DEF Estimate, DInv, Types
  <2>2. CASE command.kind # "search"
    BY <2>2 DEF Estimate, DInv, Types, Existing
  <2> QED BY <2>1, <2>2
<1>3. estimate' \in Nat
  BY <1>1, DocumentsAre, TotalType DEF DInv
<1>4. /\ seen' \in [DOMAIN disk -> SUBSET (Files \cup {Absent})]
      /\ \A e \in DOMAIN disk : disk[e] \in seen'[e]
  BY <1>1 DEF DInv, Types
<1>5. failed' = 0
  BY <1>1 DEF DInv, Placed
<1>6. /\ <<>> \in Seq(Thread) /\ <<>> \in Seq(Pair) /\ <<>> \in Seq(DOMAIN disk)
      /\ 0 \in 0..Len(<<>>) /\ Len(<<>>) = 0 /\ DOMAIN <<>> = {} /\ 0 + 1 = 1 /\ 1..0 = {}
  OBVIOUS
<1>7. Types'
  BY <1>1, <1>2, <1>3, <1>4, <1>5, <1>6 DEF DInv, Types
<1>8. Batched' /\ Joined'
  BY <1>1, <1>6 DEF Batched, Joined, First
<1>9. Placed'
  BY <1>1, <1>2, <1>5, <1>6 DEF Placed
<1> QED BY <1>7, <1>8, <1>9 DEF DInv

LEMMA NextDInv == DInv /\ [Next]_vars => DInv'
<1> SUFFICES ASSUME DInv, [Next]_vars PROVE DInv'
  OBVIOUS
<1>1. CASE UNCHANGED vars
  <2>1. Types'
    BY <1>1 DEF DInv, Types, vars, main
  <2>2. Batched' /\ Joined'
    BY <1>1, SeenGrows DEF DInv, vars, main
  <2>3. Placed'
    BY <1>1 DEF DInv, Placed, vars, main
  <2> QED BY <2>1, <2>2, <2>3 DEF DInv
<1>2. CASE Zg
  BY <1>2, LookDInv, SpawnDInv, ReadDInv, JoinDInv, LeaveDInv, EstimateDInv, RebuildDInv DEF Zg
<1>3. CASE User
  BY <1>3, ChangeDInv DEF User
<1> QED BY <1>1, <1>2, <1>3 DEF Next

LEMMA LoadsHold == Spec => []DInv
  BY InitDInv, NextDInv, PTL DEF Spec

-----------------------------------------------------------------------------
\* Every variable keeps its type, and nothing of a load outlives it.
THEOREM LoadingTypes == Spec => []TypeOK
<1>1. DInv => TypeOK
  <2> SUFFICES ASSUME DInv PROVE TypeOK
    OBVIOUS
  <2>1. todo \cup ToSet(paths) \subseteq DOMAIN disk
    BY DEF DInv, Types, ToSet
  <2>2. failed \in 0..Len(paths)
    BY DEF DInv, Types, Placed
  <2>3. \A b \in DOMAIN batches : batches[b].at \in 1..(batches[b].upto + 1)
    BY Fields DEF DInv, Batched, BatchOK
  <2>4. \A k \in DOMAIN loaded : loaded[k] \in (DOMAIN paths) \X (Body \cup {NoDoc})
    <3>1. Len(loaded) \in 0..Len(paths) /\ loaded \in Seq(Pair) /\ paths \in Seq(DOMAIN disk)
      BY LoadedFits DEF DInv, Types
    <3>2. \A k \in DOMAIN loaded : k \in DOMAIN paths /\ loaded[k] \in Pair
      BY <3>1
    <3>3. \A k \in DOMAIN loaded : loaded[k][1] = k
      BY DEF DInv, Joined, ResultOf
    <3> QED BY <3>2, <3>3 DEF Pair, Docs
  <2> QED BY <2>1, <2>2, <2>3, <2>4 DEF DInv, Types, TypeOK
<1> QED BY <1>1, LoadsHold, PTL

\* When all threads are joined there is one result for each path, in the order
\* of the walk, and it is what that path held at some moment of this load: for
\* any number of threads and batches of any size.
THEOREM ResultsAreInOrder == Spec => []InputOrder
<1>1. DInv => InputOrder
  BY WholeLoad DEF InputOrder
<1> QED BY <1>1, LoadsHold, PTL

\* A load that fails reports its first failing file in the order of the walk,
\* whichever threads failed first.
THEOREM FirstErrorIsReported == Spec => []FirstErrorWins
<1>1. DInv => FirstErrorWins
  <2> SUFFICES ASSUME DInv, pc = "leave"
               PROVE  /\ Absent \in seen[paths[failed]]
                      /\ \A i \in 1..(failed - 1) :
                           \E b \in DOMAIN batches :
                             \E k \in DOMAIN batches[b].out : batches[b].out[k][1] = i
    BY DEF FirstErrorWins
  <2> DEFINE last == joined + 1
  <2>1. /\ last \in DOMAIN batches /\ batches[last].error /\ failed = batches[last].at
        /\ batches \in Seq(Thread) /\ joined \in Nat
    BY DEF DInv, Placed, Types
  <2>2. Absent \in seen[paths[failed]]
    BY <2>1 DEF DInv, Batched, BatchOK
  <2>3. ASSUME NEW i \in 1..(failed - 1)
        PROVE  \E b \in DOMAIN batches :
                 \E k \in DOMAIN batches[b].out : batches[b].out[k][1] = i
    <3> DEFINE Reach == {b \in 1..last : i < batches[b].at}
    <3>1. i \in Nat /\ i < failed
      BY <2>1, Fields DEF DInv
    <3>2. last \in Reach /\ Reach \subseteq Nat
      BY <2>1, <3>1
    <3>3. PICK b \in Reach : \A c \in Reach : b <= c
      BY <3>2, LeastOfNat
    <3>4. b \in DOMAIN batches /\ i < batches[b].at /\ b \in 1..last
      BY <2>1, <3>3
    <3>5. First(batches, b) <= i
      <4>1. CASE b = 1
        BY <4>1 DEF First
      <4>2. CASE b # 1
        <5>1. b - 1 \in 1..joined /\ b - 1 \in DOMAIN batches /\ b - 1 \in 1..last
          BY <2>1, <3>4, <4>2
        <5>2. b - 1 \notin Reach
          BY <3>3, <3>4, <5>1
        <5>3. ~(i < batches[b - 1].at)
          BY <5>1, <5>2
        <5>4. batches[b - 1].at = batches[b - 1].upto + 1 /\ batches[b - 1].upto \in Nat
          BY <5>1, Fields DEF DInv, Joined
        <5> QED BY <3>1, <4>2, <5>3, <5>4 DEF First
      <4> QED BY <4>1, <4>2
    <3> HIDE DEF Reach
    <3>6. /\ First(batches, b) \in Nat \ {0} /\ batches[b].at \in Nat /\ batches[b].out \in Seq(Pair)
      <4>1. b \in 1..(Len(batches) + 1)
        BY <2>1, <3>4
      <4> QED BY <3>4, <4>1, Fields, FirstType DEF DInv
    <3>7. /\ Len(batches[b].out) = batches[b].at - First(batches, b)
          /\ \A k \in DOMAIN batches[b].out :
               batches[b].out[k][1] = First(batches, b) + k - 1
      BY <3>4 DEF DInv, Batched, BatchOK, ResultOf
    <3> DEFINE k == i - First(batches, b) + 1
    <3>8. k \in DOMAIN batches[b].out /\ First(batches, b) + k - 1 = i
      BY <3>1, <3>4, <3>5, <3>6, <3>7
    <3> QED BY <3>4, <3>7, <3>8
  <2> QED BY <2>2, <2>3
<1> QED BY <1>1, LoadsHold, PTL

\* No thread of a load reads on when the command goes on or returns.
THEOREM NoThreadIsLeftBehind == Spec => []NoThreadLeftBehind
<1>1. DInv => NoThreadLeftBehind
  BY DEF DInv, Placed, NoThreadLeftBehind
<1> QED BY <1>1, LoadsHold, PTL

-----------------------------------------------------------------------------
(* What the gates decide on, as long as nobody changes the directory         *)

\* What the first n entries are to the index, and what the paths are.
Counted(n) == [e \in 1..n |-> IF IsCandidate(disk[e]) THEN Document(disk[e]) ELSE NoDoc]
Taken == [k \in DOMAIN paths |-> Document(disk[paths[k]])]

\* A walk has counted the entries it has passed, a load counts them all, and
\* only an init the gate let through goes on to rebuild.
Untouched ==
  edits = 0 =>
    /\ \A e \in DOMAIN disk : seen[e] = {disk[e]} /\ disk[e] # Absent
    /\ pc = "walk" => \E n \in 0..Len(disk) :
         todo = (n + 1)..Len(disk) /\ TotalChunks(Taken) = TotalChunks(Counted(n))
    /\ pc = "join" => TotalChunks(Taken) = Total
    /\ pc # "leave"
    /\ pass = "rebuild" /\ command.kind = "init" => Total <= ForceThreshold(command.level)
    /\ ForceGate

LEMMA CountedType ==
  ASSUME Types, edits = 0, \A e \in DOMAIN disk : disk[e] # Absent, NEW n \in 0..Len(disk)
  PROVE  Counted(n) \in Seq(Docs) /\ Len(Counted(n)) = n
<1>1. disk \in Seq(Files \cup {Absent})
  BY DEF Types
<1>2. \A e \in 1..n : disk[e] \in Files
  BY <1>1
<1>3. \A e \in 1..n : (IF IsCandidate(disk[e]) THEN Document(disk[e]) ELSE NoDoc) \in Docs
  <2> SUFFICES ASSUME NEW e \in 1..n
               PROVE  (IF IsCandidate(disk[e]) THEN Document(disk[e]) ELSE NoDoc) \in Docs
    OBVIOUS
  <2>1. Document(disk[e]) \in Docs /\ NoDoc \in Docs
    BY <1>2, DocumentType DEF Docs
  <2> QED BY <2>1
<1>4. n \in Nat
  BY <1>1
<1> QED BY <1>3, <1>4 DEF Counted

LEMMA TotalIsCounted ==
  ASSUME Types
  PROVE  Total = TotalChunks(Counted(Len(disk)))
<1>1. DOMAIN disk = 1..Len(disk)
  BY DEF Types
<1> QED BY <1>1 DEF Total, Counted

LEMMA GateNumbers ==
  ASSUME Types, edits = 0, \A e \in DOMAIN disk : disk[e] # Absent
  PROVE  /\ Total \in Nat /\ ForceThreshold(command.level) \in Nat
         /\ Recommended["fts"] \in Nat /\ Recommended["fts+vector"] \in Nat
<1>1. Recommended \in [Level -> Nat] /\ Multiplier \in Nat
  BY DocumentLoaderAssumption
<1>2. \A l \in Level : Recommended[l] \in Nat /\ ForceThreshold(l) \in Nat
  BY <1>1 DEF ForceThreshold
<1>3. command.level \in Level /\ "fts" \in Level /\ "fts+vector" \in Level
  BY DEF Types, Level
<1>4. Len(disk) \in 0..Len(disk)
  BY DEF Types
<1>5. Total \in Nat
  BY <1>4, CountedType, TotalIsCounted, TotalType
<1> QED BY <1>2, <1>3, <1>5

LEMMA TakenType ==
  ASSUME Types, \A e \in DOMAIN disk : disk[e] # Absent
  PROVE  Taken \in Seq(Docs) /\ Len(Taken) = Len(paths)
<1>1. paths \in Seq(DOMAIN disk) /\ disk \in Seq(Files \cup {Absent})
  BY DEF Types
<1>2. \A k \in DOMAIN paths : disk[paths[k]] \in Files
  BY <1>1
<1>3. \A k \in DOMAIN paths : Document(disk[paths[k]]) \in Docs
  BY <1>2, DocumentType
<1> QED BY <1>1, <1>3 DEF Taken

LEMMA LookUntouched ==
  ASSUME DInv, Untouched, Look, edits' = 0
  PROVE  Untouched'
<1>1. /\ edits = 0 /\ pc = "walk" /\ todo # {} /\ UNCHANGED <<disk, edits, batches, seen>>
      /\ \A e \in DOMAIN disk : seen[e] = {disk[e]} /\ disk[e] # Absent
  BY DEF Look, Untouched
<1>2. PICK n \in 0..Len(disk) :
        todo = (n + 1)..Len(disk) /\ TotalChunks(Taken) = TotalChunks(Counted(n))
  BY <1>1 DEF Untouched
<1>3. Len(disk) \in Nat /\ DOMAIN disk = 1..Len(disk) /\ paths \in Seq(DOMAIN disk)
  BY DEF DInv, Types
<1>4. Min(todo) = n + 1 /\ n + 1 \in DOMAIN disk /\ n + 1 \in 0..Len(disk)
  <2>1. Min(todo) \in todo /\ \A e \in todo : Min(todo) <= e
    BY NextEntry, <1>1 DEF DInv
  <2>2. n + 1 \in todo
    BY <1>2, <1>3, <2>1
  <2>3. Min(todo) <= n + 1 /\ Min(todo) >= n + 1 /\ Min(todo) \in Int
    BY <1>2, <1>3, <2>1, <2>2
  <2> QED BY <1>2, <1>3, <2>2, <2>3
<1> DEFINE e == n + 1
<1>5. /\ paths' = IF IsCandidate(disk[e]) THEN Append(paths, e) ELSE paths
      /\ todo' = todo \ {e}
      /\ UNCHANGED <<pc, command, pass, joined, loaded, failed, estimate, outcome>>
  <2>1. disk[Min(todo)] # Absent
    BY <1>1, <1>4
  <2> QED BY <1>4, <2>1 DEF Look
<1>6. todo' = (n + 1 + 1)..Len(disk)
  BY <1>2, <1>3, <1>5
<1> DEFINE d == IF IsCandidate(disk[e]) THEN Document(disk[e]) ELSE NoDoc
<1>7. Counted(n + 1) = Append(Counted(n), d)
  <2>1. Counted(n) \in Seq(Docs) /\ Len(Counted(n)) = n
    BY <1>1, CountedType DEF DInv
  <2>2. Counted(n + 1) \in Seq(Docs) /\ Len(Counted(n + 1)) = n + 1
    BY <1>1, <1>4, CountedType DEF DInv
  <2>3. \A i \in 1..n : Counted(n + 1)[i] = Counted(n)[i]
    BY <1>3 DEF Counted
  <2>4. Counted(n + 1)[n + 1] = d
    BY <1>3, <1>4 DEF Counted
  <2> HIDE DEF d
  <2>5. /\ Len(Append(Counted(n), d)) = n + 1 /\ Append(Counted(n), d)[n + 1] = d
        /\ \A i \in 1..n : Append(Counted(n), d)[i] = Counted(n)[i]
    BY <2>1
  <2> QED BY <1>3, <2>1, <2>2, <2>3, <2>4, <2>5
<1>8. TotalChunks(Counted(n + 1)) = TotalChunks(Counted(n)) + ChunkCount(d)
  <2>1. Counted(n) \in Seq(Docs)
    BY <1>1, CountedType DEF DInv
  <2> QED BY <1>7, <2>1, TotalAppend
<1>9. TotalChunks(Taken') = TotalChunks(Counted(n + 1))
  <2>1. CASE IsCandidate(disk[e])
    <3>1. Taken' = Append(Taken, d)
      <4>1. Taken \in Seq(Docs) /\ Len(Taken) = Len(paths) /\ DOMAIN Taken = DOMAIN paths
        BY <1>1, TakenType DEF DInv, Taken
      <4>2. paths' = Append(paths, e) /\ DOMAIN paths' = 1..(Len(paths) + 1)
        BY <1>3, <1>5, <2>1
      <4>3. Taken' = [k \in DOMAIN paths' |-> Document(disk[paths'[k]])]
        BY <1>1 DEF Taken
      <4>4. \A k \in DOMAIN paths : Taken'[k] = Taken[k]
        BY <1>3, <4>2, <4>3 DEF Taken
      <4>5. Taken'[Len(paths) + 1] = d
        BY <1>3, <2>1, <4>2, <4>3
      <4> HIDE DEF d
      <4> DEFINE m == Len(paths)
      <4>6. m \in Nat /\ DOMAIN paths = 1..m
        BY <1>3
      <4>7. /\ Len(Append(Taken, d)) = m + 1 /\ Append(Taken, d)[m + 1] = d
            /\ \A k \in 1..m : Append(Taken, d)[k] = Taken[k]
        BY <4>1, <4>6
      <4>8. Len(Taken') = m + 1 /\ Taken' \in Seq(Docs)
        <5>1. \A k \in 1..(m + 1) : Taken'[k] \in Docs
          <6>1. d \in Docs
            <7>1. disk \in Seq(Files \cup {Absent})
              BY DEF DInv, Types
            <7>2. disk[e] \in Files
              BY <1>1, <1>4, <7>1
            <7> QED BY <7>2, DocumentType DEF d, Docs
          <6>2. \A k \in 1..(m + 1) : k = m + 1 \/ k \in 1..m
            BY <4>6
          <6> QED BY <4>1, <4>4, <4>5, <4>6, <6>1, <6>2
        <5> HIDE DEF m
        <5>2. DOMAIN Taken' = 1..(m + 1)
          BY <4>2, <4>3 DEF m
        <5>3. Taken' = [k \in 1..(m + 1) |-> Taken'[k]]
          BY <4>3, <5>2
        <5> QED BY <4>6, <5>1, <5>2, <5>3
      <4> HIDE DEF m
      <4>9. Append(Taken, d) = Taken'
        <5>1. \A k \in 1..(m + 1) : Append(Taken, d)[k] = Taken'[k]
          <6>1. \A k \in 1..(m + 1) : k = m + 1 \/ k \in 1..m
            BY <4>6
          <6> QED BY <4>4, <4>5, <4>6, <4>7, <6>1 DEF m
        <5> QED BY <4>1, <4>6, <4>7, <4>8, <5>1
      <4> QED BY <4>9
    <3>2. Taken \in Seq(Docs)
      BY <1>1, TakenType DEF DInv
    <3> QED BY <1>2, <1>8, <3>1, <3>2, TotalAppend
  <2>2. CASE ~IsCandidate(disk[e])
    <3>1. Taken' = Taken
      BY <1>1, <1>5, <2>2 DEF Taken
    <3>2. ChunkCount(d) = 0
      BY <2>2 DEF ChunkCount
    <3>3. TotalChunks(Counted(n)) \in Nat
      BY <1>1, CountedType, TotalType DEF DInv
    <3> QED BY <1>2, <1>8, <3>1, <3>2, <3>3
  <2> QED BY <2>1, <2>2
<1>10. TotalChunks(Counted(n + 1)') = TotalChunks(Counted(n + 1))
  BY <1>1 DEF Counted
<1>11. Total' = Total
  BY <1>1 DEF Total
<1> HIDE DEF e, d
<1>12. pc' = "walk" /\ Len(disk') = Len(disk) /\ DOMAIN disk' = DOMAIN disk
  BY <1>1, <1>5
<1>13. \E m \in 0..Len(disk') :
         todo' = (m + 1)..Len(disk') /\ TotalChunks(Taken') = TotalChunks(Counted(m)')
  BY <1>4, <1>6, <1>9, <1>10, <1>12
<1>14. ForceGate'
  BY <1>12 DEF ForceGate
<1> QED BY <1>1, <1>5, <1>11, <1>12, <1>13, <1>14 DEF Untouched

LEMMA SpawnUntouched ==
  ASSUME DInv, Untouched, Spawn, edits' = 0
  PROVE  Untouched'
<1>1. /\ edits = 0 /\ pc = "walk" /\ todo = {} /\ pc' = "join"
      /\ UNCHANGED <<disk, edits, seen, command, pass, paths>>
      /\ \A e \in DOMAIN disk : seen[e] = {disk[e]} /\ disk[e] # Absent
  BY DEF Spawn, Untouched, main
<1>2. PICK n \in 0..Len(disk) :
        todo = (n + 1)..Len(disk) /\ TotalChunks(Taken) = TotalChunks(Counted(n))
  BY <1>1 DEF Untouched
<1>3. Len(disk) \in Nat
  BY DEF DInv, Types
<1>4. n = Len(disk)
  <2>1. n + 1 \notin (n + 1)..Len(disk)
    BY <1>1, <1>2
  <2> QED BY <1>3, <2>1
<1>5. TotalChunks(Taken) = Total
  BY <1>2, <1>4, TotalIsCounted DEF DInv
<1>6. Taken' = Taken /\ Total' = Total
  BY <1>1 DEF Taken, Total
<1>7. ForceGate'
  BY <1>1 DEF ForceGate
<1> QED BY <1>1, <1>5, <1>6, <1>7 DEF Untouched

\* With the files as they were, no thread fails, and a load returns what the
\* paths are.
LEMMA LoadUntouched ==
  ASSUME DInv, Untouched, edits = 0, pc = "join"
  PROVE  /\ \A b \in DOMAIN batches : ~batches[b].error
         /\ joined = Len(batches) => TotalChunks(Documents) = Total
<1>1. \A e \in DOMAIN disk : seen[e] = {disk[e]} /\ disk[e] # Absent
  BY DEF Untouched
<1>2. ASSUME NEW b \in DOMAIN batches, batches[b].error
      PROVE  FALSE
  <2>1. batches[b].at \in 1..Len(paths) /\ Absent \in seen[paths[batches[b].at]]
    <3>1. /\ batches[b].at <= batches[b].upto /\ batches[b].upto <= Len(paths)
          /\ Absent \in seen[paths[batches[b].at]]
      BY <1>2 DEF DInv, Batched, BatchOK
    <3>2. Len(paths) \in Nat /\ batches[b].at \in Nat \ {0} /\ batches[b].upto \in Nat
      BY Fields DEF DInv, Types
    <3> QED BY <3>1, <3>2
  <2>2. paths[batches[b].at] \in DOMAIN disk
    BY <2>1 DEF DInv, Types
  <2> QED BY <1>1, <2>1, <2>2
<1>3. ASSUME joined = Len(batches)
      PROVE  TotalChunks(Documents) = Total
  <2>1. /\ Len(Documents) = Len(paths)
        /\ \A i \in DOMAIN paths :
             Documents[i] \in {Document(f) : f \in seen[paths[i]] \ {Absent}}
    BY <1>3, WholeLoad
  <2>2. Documents \in Seq(Docs) /\ Taken \in Seq(Docs) /\ Len(Taken) = Len(paths)
    BY <1>1, DocumentsAre, TakenType DEF DInv
  <2>3. \A i \in DOMAIN paths : Documents[i] = Taken[i]
    <3>1. \A i \in DOMAIN paths : paths[i] \in DOMAIN disk
      BY DEF DInv, Types
    <3> QED BY <1>1, <2>1, <3>1 DEF Taken
  <2>4. DOMAIN paths = 1..Len(paths) /\ Len(paths) \in Nat
    BY DEF DInv, Types
  <2>5. Documents = Taken
    BY <2>1, <2>2, <2>3, <2>4
  <2> QED BY <2>5 DEF Untouched
<1> QED BY <1>2, <1>3

LEMMA EstimateUntouched ==
  ASSUME DInv, Untouched, Estimate, edits' = 0
  PROVE  Untouched'
<1>1. /\ edits = 0 /\ pc = "join" /\ joined = Len(batches) /\ paths' = <<>>
      /\ UNCHANGED <<disk, edits, command>> /\ pass = "estimate"
      /\ seen' = [e \in DOMAIN disk |-> IF pc' = "walk" THEN {disk[e]} ELSE seen[e]]
      /\ estimate' = TotalChunks(Documents)
      /\ \A e \in DOMAIN disk : seen[e] = {disk[e]} /\ disk[e] # Absent
  BY DEF Estimate, Untouched, Afresh
<1>2. estimate' = Total /\ Total' = Total
  <2>1. TotalChunks(Documents) = Total
    BY <1>1, LoadUntouched
  <2> QED BY <1>1, <2>1 DEF Total
<1>3. /\ Total \in Nat /\ ForceThreshold(command.level) \in Nat
      /\ Recommended["fts"] \in Nat /\ Recommended["fts+vector"] \in Nat
  BY <1>1, GateNumbers DEF DInv
<1>4. \A e \in DOMAIN disk' : seen'[e] = {disk'[e]} /\ disk'[e] # Absent
  BY <1>1
<1> HIDE DEF Total
<1>5. CASE command.kind = "search"
  <2>1. /\ outcome' = IF estimate' <= Recommended["fts+vector"] THEN "suggests-fts+vector"
                      ELSE IF estimate' <= Recommended["fts"] THEN "suggests-fts"
                      ELSE "suggests-nothing"
        /\ pc' = "done" /\ UNCHANGED pass
    BY <1>5 DEF Estimate
  <2>2. ForceGate'
    <3>1. CASE Total <= Recommended["fts+vector"]
      <4>1. outcome' = "suggests-fts+vector"
        BY <1>2, <2>1, <3>1
      <4> QED BY <1>2, <2>1, <3>1, <4>1 DEF ForceGate
    <3>2. CASE ~(Total <= Recommended["fts+vector"]) /\ Total <= Recommended["fts"]
      <4>1. outcome' = "suggests-fts" /\ Total > Recommended["fts+vector"]
        BY <1>2, <1>3, <2>1, <3>2
      <4> QED BY <1>2, <2>1, <3>2, <4>1 DEF ForceGate
    <3>3. CASE ~(Total <= Recommended["fts+vector"]) /\ ~(Total <= Recommended["fts"])
      <4>1. outcome' = "suggests-nothing" /\ Total > Recommended["fts"]
        BY <1>2, <1>3, <2>1, <3>3
      <4> QED BY <1>2, <2>1, <4>1 DEF ForceGate
    <3> QED BY <3>1, <3>2, <3>3
  <2> QED BY <1>1, <1>4, <2>1, <2>2 DEF Untouched
<1>6. CASE RequiresForce(command.level, estimate') /\ command.kind = "init"
  <2>1. outcome' = "refused" /\ pc' = "done" /\ UNCHANGED pass
    BY <1>6 DEF Estimate
  <2>2. Total > ForceThreshold(command.level)
    BY <1>2, <1>6 DEF RequiresForce
  <2>3. ForceGate'
    BY <1>1, <1>2, <1>6, <2>1, <2>2 DEF ForceGate, ForceThreshold
  <2> QED BY <1>1, <1>4, <2>1, <2>3 DEF Untouched
<1>7. CASE /\ command.kind # "search"
           /\ ~(RequiresForce(command.level, estimate') /\ command.kind = "init")
  <2>1. pass' = "rebuild" /\ todo' = Existing /\ pc' = "walk"
    BY <1>7 DEF Estimate
  <2>2. command.kind = "init" => Total <= ForceThreshold(command.level)
    BY <1>2, <1>3, <1>7 DEF RequiresForce
  <2>3. Len(disk) \in Nat /\ DOMAIN disk = 1..Len(disk)
    BY DEF DInv, Types
  <2>4. todo' = (0 + 1)..Len(disk)
    BY <1>1, <2>1, <2>3 DEF Existing
  <2>5. TotalChunks(Taken') = TotalChunks(Counted(0)')
    <3>1. DOMAIN <<>> = {} /\ 1..0 = {}
      OBVIOUS
    <3>2. Taken' = [k \in {} |-> Document(disk[paths'[k]])]
      BY <1>1, <3>1 DEF Taken
    <3>3. Counted(0)' = [e \in {} |-> IF IsCandidate(disk[e]) THEN Document(disk[e]) ELSE NoDoc]
      BY <1>1, <3>1 DEF Counted
    <3>4. Taken' = Counted(0)'
      BY <3>2, <3>3
    <3> QED BY <3>4
  <2>6. 0 \in 0..Len(disk)
    BY <2>3
  <2>7. ForceGate'
    BY <2>1 DEF ForceGate
  <2> QED BY <1>1, <1>2, <1>4, <2>1, <2>2, <2>4, <2>5, <2>6, <2>7 DEF Untouched, ForceThreshold
<1> QED BY <1>5, <1>6, <1>7

\* The steps that count nothing.
LEMMA OtherUntouched ==
  ASSUME DInv, Untouched, edits' = 0,
         \/ \E b \in DOMAIN batches : Read(b)
         \/ Join \/ Leave \/ Rebuild \/ UNCHANGED vars
  PROVE  Untouched'
<1>1. /\ edits = 0 /\ UNCHANGED <<disk, seen, command, pass, todo, paths>>
  BY DEF Read, Join, Leave, Fail, Rebuild, vars, main
<1>2. /\ \A e \in DOMAIN disk : seen[e] = {disk[e]} /\ disk[e] # Absent
      /\ pass = "rebuild" /\ command.kind = "init" => Total <= ForceThreshold(command.level)
      /\ pc # "leave" /\ (pc = "join" => TotalChunks(Taken) = Total) /\ ForceGate
  BY <1>1 DEF Untouched
<1>3. Taken' = Taken /\ Total' = Total /\ Counted(0)' = Counted(0)
  BY <1>1 DEF Taken, Total, Counted
<1>4. CASE \E b \in DOMAIN batches : Read(b)
  <2>1. pc = "join" /\ pc' = pc
    BY <1>2, <1>4 DEF Read
  <2>2. ForceGate'
    BY <2>1 DEF ForceGate
  <2> QED BY <1>1, <1>2, <1>3, <2>1, <2>2 DEF Untouched, ForceThreshold
<1>5. CASE Join
  <2>1. pc = "join" /\ joined + 1 \in DOMAIN batches
    BY <1>5 DEF Join, DInv, Types
  <2>2. ~batches[joined + 1].error
    BY <1>1, <2>1, LoadUntouched
  <2>3. pc' = "join"
    BY <1>5, <2>1, <2>2 DEF Join
  <2>4. ForceGate'
    BY <2>3 DEF ForceGate
  <2> QED BY <1>1, <1>2, <1>3, <2>1, <2>3, <2>4 DEF Untouched, ForceThreshold
<1>6. CASE Leave
  BY <1>2, <1>6 DEF Leave
<1>7. CASE Rebuild
  <2>1. /\ pc = "join" /\ joined = Len(batches) /\ pass = "rebuild" /\ pc' = "done"
        /\ outcome' = "indexed" /\ UNCHANGED loaded
    BY <1>7 DEF Rebuild
  <2>2. TotalChunks(Documents) = Total
    BY <1>1, <2>1, LoadUntouched
  <2>3. Documents' = Documents
    BY <2>1 DEF Documents
  <2>4. ForceGate'
    BY <1>1, <1>2, <1>3, <2>1, <2>2, <2>3 DEF ForceGate, ForceThreshold
  <2> QED BY <1>1, <1>2, <1>3, <2>1, <2>4 DEF Untouched, ForceThreshold
<1>8. CASE UNCHANGED vars
  <2>1. UNCHANGED <<disk, edits, pc, pass, command, todo, paths, loaded, outcome, seen>>
    BY <1>8 DEF vars, main
  <2>2. ForceGate'
    BY <1>2, <1>3, <2>1 DEF ForceGate, Quiet, Documents, ForceThreshold
  <2>3. \A n \in Nat : Counted(n)' = Counted(n)
    BY <2>1 DEF Counted
  <2>4. Len(disk) \in Nat
    BY DEF DInv, Types
  <2>5. pc = "walk" => \E n \in 0..Len(disk) :
          todo = (n + 1)..Len(disk) /\ TotalChunks(Taken) = TotalChunks(Counted(n))
    BY <1>1 DEF Untouched
  <2>6. pc' = "walk" => \E n \in 0..Len(disk') :
          todo' = (n + 1)..Len(disk') /\ TotalChunks(Taken') = TotalChunks(Counted(n)')
    BY <1>3, <2>1, <2>3, <2>4, <2>5
  <2> QED BY <1>1, <1>2, <1>3, <2>1, <2>2, <2>6 DEF Untouched, ForceThreshold
<1> QED BY <1>4, <1>5, <1>6, <1>7, <1>8

LEMMA InitUntouched == Init => Untouched
<1> SUFFICES ASSUME Init, edits = 0 PROVE Untouched
  BY DEF Untouched
<1>1. Types
  BY InitDInv DEF DInv
<1>2. /\ disk \in Inputs /\ pc = "walk" /\ pass = "estimate" /\ todo = Existing /\ paths = <<>>
      /\ seen = [e \in DOMAIN disk |-> {disk[e]}]
  BY DEF Init
<1>3. disk \in Seq(Files) /\ Absent \notin Files
  BY <1>2, DocumentLoaderAssumption
<1>4. \A e \in DOMAIN disk : seen[e] = {disk[e]} /\ disk[e] # Absent
  BY <1>2, <1>3
<1>5. Len(disk) \in Nat /\ DOMAIN disk = 1..Len(disk)
  BY <1>3
<1>6. todo = (0 + 1)..Len(disk) /\ 0 \in 0..Len(disk)
  BY <1>2, <1>4, <1>5 DEF Existing
<1>7. TotalChunks(Taken) = TotalChunks(Counted(0))
  <2>1. DOMAIN <<>> = {} /\ 1..0 = {}
    OBVIOUS
  <2>2. Taken = [k \in {} |-> Document(disk[paths[k]])]
    BY <1>2, <2>1 DEF Taken
  <2>3. Counted(0) = [e \in {} |-> IF IsCandidate(disk[e]) THEN Document(disk[e]) ELSE NoDoc]
    BY <2>1 DEF Counted
  <2>4. Taken = Counted(0)
    BY <2>2, <2>3
  <2> QED BY <2>4
<1>8. ForceGate
  BY <1>2 DEF ForceGate
<1> QED BY <1>2, <1>4, <1>6, <1>7, <1>8 DEF Untouched

LEMMA NextUntouched == DInv /\ Untouched /\ [Next]_vars => Untouched'
<1> SUFFICES ASSUME DInv, Untouched, [Next]_vars, edits' = 0 PROVE Untouched'
  BY DEF Untouched
<1>1. ~User
  <2>1. edits \in Nat
    BY DocumentLoaderAssumption DEF DInv, Types
  <2> QED BY <2>1 DEF User, Change
<1>2. CASE Look
  BY <1>2, LookUntouched
<1>3. CASE Spawn
  BY <1>3, SpawnUntouched
<1>4. CASE Estimate
  BY <1>4, EstimateUntouched
<1>5. CASE \/ \E b \in DOMAIN batches : Read(b)
           \/ Join \/ Leave \/ Rebuild \/ UNCHANGED vars
  BY <1>5, OtherUntouched
<1> QED BY <1>1, <1>2, <1>3, <1>4, <1>5 DEF Next, Zg

\* Of a directory that nobody changes, an init without --force indexes exactly
\* when its chunks, those of every candidate in the directory, are no more than
\* the threshold, and a search suggests exactly the levels it is small enough
\* for: however the walk and the threads cut the directory up.
THEOREM GatesCountTheIndex == Spec => []ForceGate
<1>1. Untouched => ForceGate
  BY DEF Untouched, ForceGate, Quiet
<1> QED BY <1>1, InitUntouched, NextUntouched, LoadsHold, PTL DEF Spec

-----------------------------------------------------------------------------
(* What is loaded *)

\* Only the files there have been are loaded.
LEMMA LoadedIs ==
  ASSUME DInv
  PROVE  Loaded \subseteq Body
<1>1. Documents \in Seq(Docs)
  BY DocumentsAre DEF DInv
<1>2. ToSet(Documents) \subseteq Docs
  BY <1>1 DEF ToSet
<1> QED BY <1>2 DEF Loaded, Docs

\* The chunks of every text that is loaded leave none of it out and repeat none,
\* keep its long pieces apart and name the lines they are on (build_chunks).
THEOREM TextsAreCovered == Spec => []TextIsCovered
<1>1. DInv => TextIsCovered
  <2> SUFFICES ASSUME DInv, NEW body \in Loaded, ~IsCode(body)
               PROVE  ChunksCover(body.lines)
    BY DEF TextIsCovered
  <2>1. body \in Body
    BY LoadedIs
  <2>2. body.lines \in Texts
    BY <2>1, DocumentLoaderBodies DEF Texts
  <2> QED BY <2>2, ChunksCoverTexts
<1> QED BY <1>1, LoadsHold, PTL

\* Every symbol chunk of a source file that is loaded speaks for the identifiers
\* it is the innermost symbol around, and an identifier's parts are its runs
\* (collect_identifier_terms, split_identifier_parts).
THEOREM SymbolsSpeakForTheirOwn == Spec => []SymbolsOwnTheirTerms
<1>1. DInv => SymbolsOwnTheirTerms
  <2> SUFFICES ASSUME DInv, NEW body \in Loaded, IsCode(body)
               PROVE  /\ TermsAreOwned(LanguageOf(body), body.tree)
                      /\ \A n \in DOMAIN body.tree :
                           body.tree[n].kind \in IdentifierLike => PartsAreRuns(body.tree[n].word)
    BY DEF SymbolsOwnTheirTerms
  <2>1. body \in Body
    BY LoadedIs
  <2>2. body.tree \in Tree
    BY <2>1, DocumentLoaderBodies
  <2>3. TermLimit \in Nat
    BY DocumentLoaderAssumption
  <2>4. TermsAreOwned(LanguageOf(body), body.tree)
    BY <2>2, <2>3, SymbolsOwnTerms
  <2>5. \A n \in DOMAIN body.tree : PartsAreRuns(body.tree[n].word)
    <3>1. \A n \in DOMAIN body.tree : body.tree[n].word \in Word
      BY <2>2, TreeIs
    <3> QED BY <3>1, IdentifiersBecomeRuns
  <2> QED BY <2>4, <2>5
<1> QED BY <1>1, LoadsHold, PTL
=============================================================================
