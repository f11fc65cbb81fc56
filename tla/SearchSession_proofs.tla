------------------------- MODULE SearchSession_proofs -------------------------
(***************************************************************************)
(* Proofs about SearchSession, for any files, queries, scopes and limits,  *)
(* and any number of edits and of transactions of other processes.         *)
(***************************************************************************)
EXTENDS SearchSession, FiniteSetTheorems, TLAPS

-----------------------------------------------------------------------------
(* Numbers and finite sets *)

LEMMA LeastOfNat ==
  ASSUME NEW S, S \subseteq Nat, S # {}
  PROVE  \E x \in S : \A y \in S : x <= y
<1>1. PICK x \in S : \A y \in S : <<y, x>> \notin OpToRel(<, Nat)
  BY NatLessThanWellFounded, WFMin
<1>2. \A y \in S : ~(y < x)
  BY <1>1 DEF OpToRel
<1> QED BY <1>2

LEMMA MaxOfFinite ==
  ASSUME NEW S, S \subseteq Nat, S # {}, IsFiniteSet(S)
  PROVE  Max(S) \in S /\ \A x \in S : x <= Max(S)
<1> DEFINE Bad == {T \in SUBSET S : T # {} /\ ~\E m \in T : \A x \in T : x <= m}
           Sizes == {Cardinality(T) : T \in Bad}
<1>1. ASSUME Bad # {}
      PROVE  FALSE
  <2>1. \A T \in Bad : IsFiniteSet(T) /\ Cardinality(T) \in Nat
    BY FS_Subset, FS_CardinalityType
  <2>2. Sizes \subseteq Nat /\ Sizes # {}
    BY <1>1, <2>1
  <2>3. PICK k \in Sizes : \A j \in Sizes : k <= j
    BY <2>2, LeastOfNat
  <2>4. PICK T \in Bad : k = Cardinality(T)
    BY <2>3
  <2>5. PICK y \in T : TRUE
    BY <2>4
  <2>6. Cardinality(T \ {y}) = Cardinality(T) - 1
    BY <2>1, <2>5, FS_RemoveElement
  <2>7. ASSUME T \ {y} \in Bad
        PROVE  FALSE
    <3>1. k <= Cardinality(T \ {y}) /\ k \in Nat
      BY <2>2, <2>3, <2>7
    <3> QED BY <2>4, <2>6, <3>1
  <2>8. CASE T \ {y} = {}
    BY <2>5, <2>8
  <2>9. CASE T \ {y} # {}
    <3>1. PICK m \in T \ {y} : \A x \in T \ {y} : x <= m
      BY <2>7, <2>9
    <3>2. m \in Nat /\ y \in Nat /\ m \in T
      BY <2>5
    <3>3. CASE y <= m
      <4>1. \A x \in T : x <= m
        BY <3>1, <3>3
      <4> QED BY <2>4, <3>2, <4>1
    <3>4. CASE m < y
      <4>1. \A x \in T : x <= y
        BY <3>1, <3>2, <3>4
      <4> QED BY <2>4, <2>5, <4>1
    <3> QED BY <3>2, <3>3, <3>4
  <2> QED BY <2>8, <2>9
<1>2. PICK m \in S : \A x \in S : x <= m
  BY <1>1
<1>3. \A x \in S : m >= x
  BY <1>2
<1>4. Max(S) \in S /\ \A x \in S : Max(S) >= x
  BY <1>3 DEF Max
<1> QED BY <1>4

\* A set that is no larger than the limit is taken whole.
LEMMA CutIs ==
  ASSUME NEW S, IsFiniteSet(S), NEW k \in Nat, NEW T \in Cut(k, S)
  PROVE  /\ T \subseteq S /\ IsFiniteSet(T) /\ Cardinality(T) <= k
         /\ T # S => Cardinality(T) = k
<1>1. Cardinality(S) \in Nat
  BY FS_CardinalityType
<1>2. T \in SUBSET S /\ Cardinality(T) = IF Cardinality(S) < k THEN Cardinality(S) ELSE k
  BY DEF Cut, kSubset
<1>3. IsFiniteSet(T) /\ (Cardinality(S) = Cardinality(T) => S = T)
  BY <1>2, FS_Subset
<1> QED BY <1>1, <1>2, <1>3

\* A function that tells the elements of a finite set apart.
LEMMA CountOfImage ==
  ASSUME NEW S, IsFiniteSet(S), NEW f, \A x, y \in S : f[x] = f[y] => x = y, DOMAIN f = S
  PROVE  LET T == {f[x] : x \in S}
         IN  IsFiniteSet(T) /\ Cardinality(T) = Cardinality(S)
<1> DEFINE T == {f[x] : x \in S}
           g == [x \in S |-> f[x]]
<1>1. g \in [S -> T] /\ \A x \in S : g[x] = f[x]
  OBVIOUS
<1>2. g \in Injection(S, T)
  BY <1>1 DEF Injection, IsInjective
<1>3. g \in Surjection(S, T)
  BY <1>1 DEF Surjection
<1>4. ExistsBijection(S, T)
  BY <1>2, <1>3 DEF Bijection, ExistsBijection
<1> HIDE DEF T
<1>5. IsFiniteSet(T) /\ Cardinality(T) = Cardinality(S)
  BY <1>4, FS_Bijection
<1> QED BY <1>5 DEF T

-----------------------------------------------------------------------------
(* Chunk lines and their indexes *)

LEMMA LinesOfABody ==
  ASSUME NEW body \in Bodies
  PROVE  /\ ChunkLines(body) \subseteq Nat \ {0}
         /\ IsFiniteSet(ChunkLines(body)) /\ Cardinality(ChunkLines(body)) \in Nat
<1>1. PICK n \in Nat : DOMAIN body = 1..n
  BY SearchSessionAssumption
<1>2. IsFiniteSet(1..n)
  BY FS_Interval
<1>3. ChunkLines(body) \subseteq 1..n
  BY <1>1 DEF ChunkLines
<1>4. IsFiniteSet(ChunkLines(body))
  BY <1>2, <1>3, FS_Subset
<1> QED BY <1>3, <1>4, FS_CardinalityType

\* The index of a chunk line is smaller than the number of chunks, and later
\* lines have greater indexes.
LEMMA IndexIs ==
  ASSUME NEW body \in Bodies, NEW n \in ChunkLines(body)
  PROVE  /\ IndexOf(body, n) \in 0..(Cardinality(ChunkLines(body)) - 1)
         /\ \A m \in ChunkLines(body) : m < n => IndexOf(body, m) < IndexOf(body, n)
<1> DEFINE Before(k) == {m \in ChunkLines(body) : m < k}
<1>1. /\ ChunkLines(body) \subseteq Nat /\ IsFiniteSet(ChunkLines(body))
      /\ Cardinality(ChunkLines(body)) \in Nat
  BY LinesOfABody
<1>2. \A k : IsFiniteSet(Before(k)) /\ Cardinality(Before(k)) \in Nat
  BY <1>1, FS_Subset, FS_CardinalityType
<1>3. Cardinality(Before(n)) < Cardinality(ChunkLines(body))
  <2>1. n \notin Before(n) /\ Before(n) \in SUBSET ChunkLines(body)
    BY <1>1
  <2>2. /\ Cardinality(Before(n)) <= Cardinality(ChunkLines(body))
        /\ Cardinality(ChunkLines(body)) = Cardinality(Before(n)) => ChunkLines(body) = Before(n)
    BY <1>1, <2>1, FS_Subset
  <2> QED BY <1>1, <1>2, <2>1, <2>2
<1>4. ASSUME NEW m \in ChunkLines(body), m < n
      PROVE  Cardinality(Before(m)) < Cardinality(Before(n))
  <2>1. m \in Before(n) /\ m \notin Before(m) /\ Before(m) \in SUBSET Before(n)
    BY <1>1, <1>4
  <2>2. /\ Cardinality(Before(m)) <= Cardinality(Before(n))
        /\ Cardinality(Before(n)) = Cardinality(Before(m)) => Before(n) = Before(m)
    BY <1>2, <2>1, FS_Subset
  <2> QED BY <1>2, <2>1, <2>2
<1>5. IndexOf(body, n) = Cardinality(Before(n))
  BY DEF IndexOf
<1>6. \A m \in ChunkLines(body) : IndexOf(body, m) = Cardinality(Before(m))
  BY DEF IndexOf
<1> HIDE DEF Before
<1> QED BY <1>1, <1>2, <1>3, <1>4, <1>5, <1>6

LEMMA IndexTellsApart ==
  ASSUME NEW body \in Bodies, NEW n \in ChunkLines(body), NEW m \in ChunkLines(body),
         IndexOf(body, n) = IndexOf(body, m)
  PROVE  n = m
<1>1. n \in Nat /\ m \in Nat
  BY LinesOfABody
<1>2. ~(n < m) /\ ~(m < n)
  <2>1. m < n => IndexOf(body, m) < IndexOf(body, n)
    BY IndexIs
  <2>2. n < m => IndexOf(body, n) < IndexOf(body, m)
    BY IndexIs
  <2>3. IndexOf(body, n) \in Int
    BY IndexIs
  <2> QED BY <2>1, <2>2, <2>3
<1> QED BY <1>1, <1>2

\* Every index below the number of chunks belongs to a line.
LEMMA IndexIsTaken ==
  ASSUME NEW body \in Bodies, NEW i \in Nat, i < Cardinality(ChunkLines(body))
  PROVE  \E n \in ChunkLines(body) : IndexOf(body, n) = i
<1> DEFINE size == Cardinality(ChunkLines(body))
           f == [n \in ChunkLines(body) |-> IndexOf(body, n)]
<1>1. size \in Nat /\ IsFiniteSet(ChunkLines(body))
  BY LinesOfABody
<1> HIDE DEF size
<1>2. IsFiniteSet(0..(size - 1)) /\ Cardinality(0..(size - 1)) = size
  <2>1. size - 1 \in Int /\ 0 \in Int
    BY <1>1
  <2>2. /\ IsFiniteSet(0..(size - 1))
        /\ Cardinality(0..(size - 1)) = IF 0 > size - 1 THEN 0 ELSE (size - 1) - 0 + 1
    BY <2>1, FS_Interval
  <2> QED BY <1>1, <2>2
<1> USE DEF size
<1> DEFINE slots == 0..(size - 1)
<1>3. f \in [ChunkLines(body) -> slots] /\ \A n \in ChunkLines(body) : f[n] = IndexOf(body, n)
  BY IndexIs
<1>4. \A n, m \in ChunkLines(body) : f[n] = f[m] => n = m
  BY <1>3, IndexTellsApart
<1>5. i \in slots /\ IsFiniteSet(slots) /\ Cardinality(slots) = Cardinality(ChunkLines(body))
  BY <1>1, <1>2
<1> HIDE DEF f, slots, size
<1>6. f \in Injection(ChunkLines(body), slots)
  BY <1>3, <1>4 DEF Injection, IsInjective
<1>7. f \in Surjection(ChunkLines(body), slots)
  BY <1>5, <1>6, FS_Injection
<1> QED BY <1>3, <1>5, <1>7 DEF Surjection

\* What is shown of a chunk is a line of the file.
LEMMA ChunkTextIs ==
  ASSUME NEW body \in Bodies, NEW i \in Nat, i < Cardinality(ChunkLines(body))
  PROVE  \E n \in DOMAIN body : ChunkText(body, i) = body[n]
BY IndexIsTaken DEF ChunkText, ChunkLines

-----------------------------------------------------------------------------
(* Rows.  The rows of a path are those of some body it was indexed with,     *)
(* and no two rows have the same rowid, or the same path and index.          *)

Text == UNION {{body[n] : n \in DOMAIN body} : body \in Bodies}
Row == [id : Nat \ {0}, file : Path, index : Nat, line : Nat, text : Text]

RowsAre(rs, p, body) ==
  /\ \A r \in rs : r.file = p =>
       /\ body # Absent /\ r.line \in ChunkLines(body)
       /\ r.index = IndexOf(body, r.line) /\ r.text = body[r.line]
  /\ body # Absent => \A n \in ChunkLines(body) : \E r \in rs : r.file = p /\ r.line = n

Keyed(rs) ==
  \A r, s \in rs : r.id = s.id \/ <<r.file, r.index>> = <<s.file, s.index>> => r = s

Sound(rs) ==
  /\ rs \subseteq Row /\ IsFiniteSet(rs)
  /\ Keyed(rs)
  /\ \A p \in Path : \E body \in Bodies \cup {Absent} : RowsAre(rs, p, body)

LEMMA LineType ==
  ASSUME NEW body \in Bodies, NEW n \in ChunkLines(body)
  PROVE  /\ n \in Nat /\ n \in DOMAIN body /\ body[n] \in Text
         /\ IndexOf(body, n) \in Nat /\ body # Absent
<1>1. n \in Nat /\ IndexOf(body, n) \in Nat
  BY LinesOfABody, IndexIs
<1>2. n \in DOMAIN body
  BY DEF ChunkLines
<1> QED BY <1>1, <1>2, SearchSessionAssumption DEF Text

LEMMA NoRowsAreSound == Sound({})
<1>1. \A p \in Path : RowsAre({}, p, Absent)
  BY DEF RowsAre
<1> QED BY <1>1, FS_EmptySet DEF Sound, Keyed

LEMMA RemovedIsSound ==
  ASSUME NEW rs, Sound(rs), NEW p \in Path
  PROVE  LET rest == {r \in rs : r.file # p}
         IN  Sound(rest) /\ \A r \in rest : r.file # p
<1> DEFINE rest == {r \in rs : r.file # p}
<1>1. rest \subseteq Row /\ IsFiniteSet(rest) /\ Keyed(rest)
  BY FS_Subset DEF Sound, Keyed
<1>2. ASSUME NEW q \in Path
      PROVE  \E body \in Bodies \cup {Absent} : RowsAre(rest, q, body)
  <2>1. CASE q = p
    BY <2>1 DEF RowsAre
  <2>2. CASE q # p
    <3>1. PICK body \in Bodies \cup {Absent} : RowsAre(rs, q, body)
      BY DEF Sound
    <3>2. RowsAre(rest, q, body)
      BY <2>2, <3>1 DEF RowsAre
    <3> QED BY <3>2
  <2> QED BY <2>1, <2>2
<1> QED BY <1>1, <1>2 DEF Sound

LEMMA LastIdIs ==
  ASSUME NEW rs, Sound(rs)
  PROVE  LastId(rs) \in Nat /\ \A r \in rs : r.id <= LastId(rs)
<1> DEFINE f == [r \in rs |-> r.id]
           ids == {r.id : r \in rs}
<1>1. ids \subseteq Nat /\ \A r \in rs : r.id \in ids
  BY DEF Sound, Row
<1>2. IsFiniteSet(ids)
  <2>1. f \in Surjection(rs, ids)
    BY DEF Surjection
  <2> HIDE DEF f, ids
  <2> QED BY <2>1, FS_Surjection DEF Sound
<1>3. IsFiniteSet(ids \cup {0})
  BY <1>2, FS_AddElement
<1>4. LastId(rs) = Max(ids \cup {0})
  BY DEF LastId
<1> HIDE DEF ids
<1>5. ids \cup {0} \subseteq Nat /\ ids \cup {0} # {}
  BY <1>1
<1>6. Max(ids \cup {0}) \in ids \cup {0} /\ \A x \in ids \cup {0} : x <= Max(ids \cup {0})
  BY <1>3, <1>5, MaxOfFinite
<1> QED BY <1>1, <1>4, <1>5, <1>6

\* upsert_document gives a path the rows of its body, under rowids of their own.
LEMMA UpsertedIsSound ==
  ASSUME NEW rs, Sound(rs), NEW p \in Path, NEW body \in Bodies
  PROVE  Sound(Upserted(rs, p, body))
<1> DEFINE rest == {r \in rs : r.file # p}
           last == LastId(rest)
           RowOf(n) == [id |-> last + 1 + IndexOf(body, n), file |-> p,
                        index |-> IndexOf(body, n), line |-> n, text |-> body[n]]
           new == {RowOf(n) : n \in ChunkLines(body)}
           all == rest \cup new
<1>1. Sound(rest) /\ \A r \in rest : r.file # p
  BY RemovedIsSound
<1>2. last \in Nat /\ \A r \in rest : r.id <= last
  BY <1>1, LastIdIs
<1> HIDE DEF last
<1>3. \A n \in ChunkLines(body) : RowOf(n) \in Row /\ RowOf(n).id > last
  BY <1>2, LineType DEF Row
<1>4. IsFiniteSet(all)
  <2>1. IsFiniteSet(ChunkLines(body))
    BY LinesOfABody
  <2> DEFINE f == [n \in ChunkLines(body) |-> RowOf(n)]
  <2>2. f \in Surjection(ChunkLines(body), new)
    BY DEF Surjection
  <2>3. IsFiniteSet(rest)
    BY <1>1 DEF Sound
  <2> HIDE DEF f, new, rest
  <2>4. IsFiniteSet(new)
    BY <2>1, <2>2, FS_Surjection
  <2> QED BY <2>3, <2>4, FS_Union
<1>5. Keyed(all)
  <2> SUFFICES ASSUME NEW r \in all, NEW s \in all,
                      r.id = s.id \/ <<r.file, r.index>> = <<s.file, s.index>>
               PROVE  r = s
    BY DEF Keyed
  <2>1. CASE r \in rest /\ s \in rest
    BY <1>1, <2>1 DEF Sound, Keyed
  <2>2. CASE r \in new /\ s \in new
    <3>1. PICK n \in ChunkLines(body) : r = RowOf(n)
      BY <2>2
    <3>2. PICK m \in ChunkLines(body) : s = RowOf(m)
      BY <2>2
    <3>3. IndexOf(body, n) = IndexOf(body, m)
      BY <1>2, <3>1, <3>2, LineType
    <3>4. n = m
      BY <3>3, IndexTellsApart
    <3> QED BY <3>1, <3>2, <3>4
  <2>3. ASSUME NEW x \in rest, NEW y \in new
        PROVE  x.id # y.id /\ x.file # y.file
    <3>1. x.id \in Nat /\ x.id <= last /\ x.file # p
      BY <1>1, <1>2 DEF Sound, Row
    <3>2. PICK n \in ChunkLines(body) : y = RowOf(n)
      OBVIOUS
    <3>3. y.id \in Nat /\ y.id > last /\ y.file = p
      BY <1>3, <3>2 DEF Row
    <3> QED BY <1>2, <3>1, <3>3
  <2> QED BY <2>1, <2>2, <2>3
<1>6. ASSUME NEW q \in Path
      PROVE  \E b \in Bodies \cup {Absent} : RowsAre(all, q, b)
  <2>1. CASE q = p
    <3>1. ASSUME NEW r \in all, r.file = p
          PROVE  /\ r.line \in ChunkLines(body)
                 /\ r.index = IndexOf(body, r.line) /\ r.text = body[r.line]
      <4>1. PICK n \in ChunkLines(body) : r = RowOf(n)
        BY <1>1, <3>1
      <4> QED BY <4>1
    <3>2. \A n \in ChunkLines(body) : RowOf(n) \in all /\ RowOf(n).file = p /\ RowOf(n).line = n
      OBVIOUS
    <3>3. body # Absent
      BY SearchSessionAssumption
    <3> HIDE DEF all
    <3>4. RowsAre(all, p, body)
      BY <3>1, <3>2, <3>3 DEF RowsAre
    <3> QED BY <2>1, <3>4
  <2>2. CASE q # p
    <3>1. PICK b \in Bodies \cup {Absent} : RowsAre(rest, q, b)
      BY <1>1 DEF Sound
    <3>2. \A r \in all : r.file = q => r \in rest
      BY <2>2
    <3> HIDE DEF rest, new
    <3>3. RowsAre(all, q, b)
      BY <3>1, <3>2 DEF RowsAre
    <3> QED BY <3>3
  <2> QED BY <2>1, <2>2
<1>7. all \subseteq Row
  BY <1>1, <1>3 DEF Sound
<1>8. Sound(all)
  BY <1>4, <1>5, <1>6, <1>7 DEF Sound
<1> QED BY <1>8 DEF Upserted, last

-----------------------------------------------------------------------------
(* A rebuild.  Rebuilt is a recursive function; what it computes follows     *)
(* from the least number of files for which it could be wrong.               *)

\* The rows after the first n files of the walk.
Upserts(t, order, k) ==
  t = [n \in 0..k |->
         IF n = 0 THEN {}
         ELSE IF disk[order[n]] = Absent THEN t[n - 1]
         ELSE Upserted(t[n - 1], order[n], disk[order[n]])]

LEMMA UpsertsExist ==
  ASSUME NEW order, NEW k \in Nat
  PROVE  \E t : Upserts(t, order, k)
<1> DEFINE Bad == {n \in Nat : ~\E t : Upserts(t, order, n)}
           After(rs, n) == IF disk[order[n]] = Absent THEN rs
                          ELSE Upserted(rs, order[n], disk[order[n]])
<1>0. \A t, n : Upserts(t, order, n)
                  <=> t = [i \in 0..n |-> IF i = 0 THEN {} ELSE After(t[i - 1], i)]
  BY DEF Upserts
<1> HIDE DEF After
<1>1. ASSUME Bad # {}
      PROVE  FALSE
  <2>1. PICK n \in Bad : \A j \in Bad : n <= j
    BY <1>1, LeastOfNat
  <2>2. n # 0
    <3>1. [i \in 0..0 |-> {}]
            = [i \in 0..0 |-> IF i = 0 THEN {} ELSE After([j \in 0..0 |-> {}][i - 1], i)]
      OBVIOUS
    <3>2. Upserts([i \in 0..0 |-> {}], order, 0)
      BY <1>0, <3>1
    <3> QED BY <3>2
  <2>3. n \in Nat /\ n - 1 \in Nat
    BY <2>2
  <2>4. PICK t : Upserts(t, order, n - 1)
    BY <2>1, <2>3
  <2> DEFINE u == [i \in 0..n |-> IF i = n THEN After(t[n - 1], n) ELSE t[i]]
  <2>5. t = [i \in 0..(n - 1) |-> IF i = 0 THEN {} ELSE After(t[i - 1], i)]
    BY <1>0, <2>4
  <2>6. ASSUME NEW i \in 0..n
        PROVE  u[i] = IF i = 0 THEN {} ELSE After(u[i - 1], i)
    <3>1. CASE i = n
      BY <2>2, <2>3, <3>1
    <3>2. CASE i # n
      <4>1. i \in 0..(n - 1) /\ (i # 0 => i - 1 \in 0..(n - 1))
        BY <2>3, <3>2
      <4>2. u[i] = t[i] /\ (i # 0 => u[i - 1] = t[i - 1])
        BY <2>3, <3>2
      <4>3. t[i] = IF i = 0 THEN {} ELSE After(t[i - 1], i)
        BY <2>5, <4>1
      <4> QED BY <4>2, <4>3
    <3> QED BY <3>1, <3>2
  <2>7. u = [i \in 0..n |-> u[i]]
    OBVIOUS
  <2> HIDE DEF u, Bad
  <2>8. u = [i \in 0..n |-> IF i = 0 THEN {} ELSE After(u[i - 1], i)]
    BY <2>6, <2>7
  <2>9. Upserts(u, order, n)
    BY <1>0, <2>8
  <2> QED BY <2>1, <2>9 DEF Bad
<1> QED BY <1>1

LEMMA RebuiltIsSound ==
  ASSUME disk \in [Path -> Bodies \cup {Absent}], NEW order \in Orders
  PROVE  Sound(Rebuilt(order))
<1> DEFINE k == Cardinality(Path)
           t == CHOOSE u : Upserts(u, order, k)
<1>1. k \in Nat
  BY FS_CardinalityType, SearchSessionAssumption
<1>2. Rebuilt(order) = t[k]
  BY DEF Rebuilt, Upserts
<1>3. Upserts(t, order, k)
  BY <1>1, UpsertsExist
<1>4. \A n \in 1..k : order[n] \in Path /\ disk[order[n]] \in Bodies \cup {Absent}
  BY DEF Orders
<1> HIDE DEF t, k
<1> DEFINE Bad == {n \in 0..k : ~Sound(t[n])}
<1>5. ASSUME Bad # {}
      PROVE  FALSE
  <2>0. Bad \subseteq Nat
    BY <1>1
  <2>1. PICK n \in Bad : \A j \in Bad : n <= j
    BY <1>5, <2>0, LeastOfNat
  <2>2. n # 0
    <3>1. 0 \in 0..k
      BY <1>1
    <3>2. t[0] = {}
      BY <1>3, <3>1 DEF Upserts
    <3> QED BY <2>1, <3>2, NoRowsAreSound
  <2>3. n \in 1..k /\ n - 1 \in 0..k /\ n - 1 < n
    BY <1>1, <2>1, <2>2
  <2>4. Sound(t[n - 1])
    BY <2>1, <2>3
  <2>5. t[n] = IF disk[order[n]] = Absent THEN t[n - 1]
               ELSE Upserted(t[n - 1], order[n], disk[order[n]])
    BY <1>3, <2>1, <2>2 DEF Upserts
  <2>6. Sound(t[n])
    BY <1>4, <2>3, <2>4, <2>5, UpsertedIsSound
  <2> QED BY <2>1, <2>6
<1>6. k \in 0..k
  BY <1>1
<1> QED BY <1>2, <1>5, <1>6

\* A path that needs no reconcile has the rows of what it holds now.
LEMMA FreshIs ==
  ASSUME disk \in [Path -> Bodies \cup {Absent}], Sound(refs), NEW p \in Path, Fresh(p)
  PROVE  RowsAre(refs, p, disk[p])
<1> DEFINE Pairs(b) == {<<n, b[n]>> : n \in ChunkLines(b)}
           mine == {<<r.line, r.text>> : r \in {x \in refs : x.file = p}}
           d == disk[p]
<1>1. PICK b \in Bodies \cup {Absent} : RowsAre(refs, p, b)
  BY DEF Sound
<1>2. mine = IF d = Absent THEN {} ELSE Pairs(d)
  BY DEF Fresh
<1>3. ASSUME NEW r \in refs, r.file = p
      PROVE  <<r.line, r.text>> \in mine
  BY <1>3
<1>4. CASE d = Absent
  <2>1. \A r \in refs : r.file # p
    BY <1>2, <1>3, <1>4
  <2> QED BY <1>4, <2>1 DEF RowsAre
<1>5. CASE d # Absent
  <2>1. ASSUME NEW r \in refs, r.file = p
        PROVE  r.line \in ChunkLines(d) /\ r.text = d[r.line]
    BY <1>2, <1>3, <1>5, <2>1
  <2>2. ASSUME NEW n \in ChunkLines(d)
        PROVE  \E r \in refs : r.file = p /\ r.line = n
    <3>1. <<n, d[n]>> \in mine
      BY <1>2, <1>5
    <3> QED BY <3>1
  <2>3. ChunkLines(d) # {} => b # Absent
    BY <1>1, <2>2 DEF RowsAre
  <2>4. b # Absent => ChunkLines(b) = ChunkLines(d)
    <3>1. ASSUME b # Absent, NEW n \in ChunkLines(b)
          PROVE  n \in ChunkLines(d)
      BY <1>1, <2>1, <3>1 DEF RowsAre
    <3>2. ASSUME b # Absent, NEW n \in ChunkLines(d)
          PROVE  n \in ChunkLines(b)
      BY <1>1, <2>2, <3>2 DEF RowsAre
    <3> QED BY <3>1, <3>2
  <2>5. ASSUME NEW r \in refs, r.file = p
        PROVE  r.index = IndexOf(d, r.line)
    <3>1. b # Absent /\ r.index = IndexOf(b, r.line)
      BY <1>1, <2>5 DEF RowsAre
    <3> QED BY <2>4, <3>1 DEF IndexOf
  <2> QED BY <1>5, <2>1, <2>2, <2>5 DEF RowsAre
<1> QED BY <1>4, <1>5

-----------------------------------------------------------------------------
(* The inductive invariant                                                   *)

RgHit == [file : Path, line : Nat, text : Text]
LiteralRow == [row : Row, line : Text]

LiteralRows == {l.row : l \in literal}
Querying == pc \in {"lexical", "rg", "snippets", "answered"}

Types ==
  /\ disk \in [Path -> Bodies \cup {Absent}] /\ level \in Levels
  /\ edits \in 0..MaxEdits /\ commits \in 0..MaxCommits
  /\ Sound(refs)
  /\ pc \in {"idle", "level", "lexical", "rg", "snippets", "answered"}
  /\ scope \in Scopes \cup {{}} /\ unread \subseteq scope
  /\ {context, hybrid, quiet, overtaken} \subseteq BOOLEAN
  /\ lexical \subseteq Row /\ IsFiniteSet(lexical)
  /\ vector \subseteq Row /\ IsFiniteSet(vector)
  /\ found \subseteq RgHit
  /\ literal \subseteq LiteralRow /\ IsFiniteSet(LiteralRows)
  /\ DOMAIN live \subseteq Path /\ \A p \in DOMAIN live : live[p] \in Bodies \cup {Absent}

\* What a search has collected by when.
Staged ==
  /\ pc \in {"idle", "level", "lexical"} => lexical = {} /\ found = {} /\ unread = {} /\ literal = {}
  /\ pc \in {"idle", "level", "lexical", "rg"} => vector = {} /\ DOMAIN live = {}
  /\ pc \in {"snippets", "answered"} => found = {} /\ unread = {}
  /\ pc = "answered" => {h.file : h \in Merged} \subseteq DOMAIN live /\ answer \in Pages(Materialized)

LineAt(p, n, text) == [file |-> p, line |-> n, text |-> text]

\* Whatever is read from a file was on disk during the query, and what rg has
\* reported of a line contains the query.
Witnessed ==
  Querying =>
    /\ LinesOf(disk) \subseteq shown
    /\ \A h \in found : h \in shown /\ h.text \in Literal
    /\ \A l \in literal : LineAt(l.row.file, l.row.line, l.line) \in shown /\ l.line \in Literal
    /\ \A p \in DOMAIN live : live[p] # Absent =>
         \A n \in DOMAIN live[p] : LineAt(p, n, live[p][n]) \in shown

\* Until another process commits, the rows of the three channels are in the
\* index, with the text they were found by.
Current ==
  Querying /\ ~overtaken =>
    /\ lexical \subseteq {r \in refs : r.text \in Lexical}
    /\ LiteralRows \subseteq refs
    /\ vector \subseteq {r \in refs : r.text \in Similar}

Of(texts) == {r \in refs : r.file \in scope /\ r.text \in texts}
Few == Cardinality(Truth) <= CandidateLimit

\* A search nobody disturbs: the rows of its scope are the disk's, and each
\* channel finds all of its rows that there are, unless there are too many.
Calm ==
  quiet /\ pc # "idle" =>
    /\ \A p \in scope : Fresh(p)
    /\ Querying => hybrid = (level = "fts+vector") /\ ~overtaken
    /\ pc \in {"rg", "snippets", "answered"} /\ Few => lexical = Of(Lexical)
    /\ \A h \in found : /\ h.file \in scope /\ disk[h.file] # Absent
                        /\ h.line \in DOMAIN disk[h.file] /\ disk[h.file][h.line] \in Literal
    /\ LiteralRows \subseteq Of(Literal)
    /\ pc \in {"rg", "snippets", "answered"} =>
         \A r \in Of(Literal) : \/ r.file \in unread \/ r \in LiteralRows
                                \/ \E h \in found : h.file = r.file /\ h.line = r.line
    /\ pc \in {"snippets", "answered"} /\ Few => vector = IF hybrid THEN Of(Similar) ELSE {}
    /\ \A p \in DOMAIN live : live[p] = disk[p]

SInv == Types /\ Staged /\ Witnessed /\ Current /\ Calm

-----------------------------------------------------------------------------
(* What depends on what                                                      *)

LEMMA SameHits ==
  ASSUME UNCHANGED <<lexical, literal, vector>>
  PROVE  Merged' = Merged /\ LiteralRows' = LiteralRows
BY DEF Merged, LiteralRows, Ids

LEMMA SamePages ==
  ASSUME UNCHANGED <<lexical, literal, vector, live, context>>
  PROVE  Materialized' = Materialized
<1>1. Merged' = Merged
  BY SameHits
<1>2. \A h : Kept(h)' <=> Kept(h)
  BY DEF Kept, StillThere
<1>3. \A h : Hit(h)' = Hit(h)
  BY DEF Hit, Snippet, StillThere
<1> QED BY <1>1, <1>2, <1>3 DEF Materialized

LEMMA SameRows ==
  ASSUME UNCHANGED <<refs, scope>>
  PROVE  \A texts : Of(texts)' = Of(texts)
BY DEF Of

LEMMA SameTruth ==
  ASSUME UNCHANGED <<disk, scope, hybrid>>
  PROVE  Truth' = Truth /\ Few' = Few
BY DEF Truth, Few

LEMMA SameFresh ==
  ASSUME UNCHANGED <<disk, refs>>
  PROVE  \A p : Fresh(p)' = Fresh(p)
BY DEF Fresh

-----------------------------------------------------------------------------
(* The steps                                                                 *)

LEMMA InitSInv == Init => SInv
<1> SUFFICES ASSUME Init PROVE SInv
  OBVIOUS
<1>1. disk \in [Path -> Bodies \cup {Absent}]
  BY DEF Init
<1>2. Sound(refs)
  BY <1>1, RebuiltIsSound DEF Init
<1>3. LiteralRows = {} /\ DOMAIN live = {} /\ found = {} /\ literal = {}
  BY DEF Init, LiteralRows
<1>4. Types
  <2>1. IsFiniteSet({})
    BY FS_EmptySet
  <2>2. edits \in 0..MaxEdits /\ commits \in 0..MaxCommits
    BY SearchSessionAssumption DEF Init
  <2> QED BY <1>1, <1>2, <1>3, <2>1, <2>2 DEF Types, Init
<1>5. Staged /\ Witnessed /\ Current /\ Calm
  BY <1>3 DEF Init, Staged, Witnessed, Current, Calm, Querying
<1> QED BY <1>4, <1>5 DEF SInv

LEMMA EditSInv ==
  ASSUME SInv, NEW p \in Path, NEW body \in Bodies \cup {Absent}, Edit(p, body)
  PROVE  SInv'
<1>1. /\ UNCHANGED <<refs, level, commits, overtaken>> /\ UNCHANGED <<lexical, literal, vector, live>>
      /\ UNCHANGED <<pc, scope, context, hybrid, found, unread, answer>>
  BY DEF Edit, session, rows
<1>2. Types'
  <2>1. disk' \in [Path -> Bodies \cup {Absent}] /\ quiet' \in BOOLEAN
    BY DEF Edit, SInv, Types
  <2>2. edits' \in 0..MaxEdits
    BY SearchSessionAssumption DEF Edit, SInv, Types
  <2>3. LiteralRows' = LiteralRows
    BY <1>1, SameHits
  <2> QED BY <1>1, <2>1, <2>2, <2>3 DEF SInv, Types
<1>3. Staged'
  BY <1>1, SameHits, SamePages DEF SInv, Staged
<1>4. Witnessed'
  <2>1. pc # "idle" => shown' = shown \cup LinesOf(disk')
    BY DEF Edit
  <2> QED BY <1>1, <2>1 DEF SInv, Witnessed, Querying
<1>5. Current'
  BY <1>1, SameHits DEF SInv, Current, Querying
<1>6. Calm'
  BY DEF Edit, Calm
<1> QED BY <1>2, <1>3, <1>4, <1>5, <1>6 DEF SInv

\* Another process commits rows that hang together.
LEMMA CommitSInv ==
  ASSUME SInv, Sound(refs'), level' \in Levels, commits' \in 0..MaxCommits,
         ~quiet', quiet' \in BOOLEAN, overtaken' = TRUE,
         UNCHANGED <<disk, edits, session, shown>>
  PROVE  SInv'
<1>1. /\ UNCHANGED <<disk, edits, shown>> /\ UNCHANGED <<lexical, literal, vector, live>>
      /\ UNCHANGED <<pc, scope, context, hybrid, found, unread, answer>>
  BY DEF session, rows
<1>2. LiteralRows' = LiteralRows
  BY <1>1, SameHits
<1>3. Types'
  BY <1>1, <1>2 DEF SInv, Types
<1>4. Staged'
  BY <1>1, SameHits, SamePages DEF SInv, Staged
<1>5. Witnessed'
  BY <1>1 DEF SInv, Witnessed, Querying
<1>6. Current' /\ Calm'
  BY DEF Current, Calm
<1> QED BY <1>3, <1>4, <1>5, <1>6 DEF SInv

LEMMA ReindexSInv ==
  ASSUME SInv, NEW p \in Path, Reindex(p)
  PROVE  SInv'
<1>1. disk \in [Path -> Bodies \cup {Absent}] /\ Sound(refs)
  BY DEF SInv, Types
<1>2. Sound(refs')
  <2>1. CASE disk[p] = Absent
    BY <1>1, <2>1, RemovedIsSound DEF Reindex
  <2>2. CASE disk[p] # Absent
    <3>1. disk[p] \in Bodies
      BY <1>1, <2>2
    <3> QED BY <1>1, <2>2, <3>1, UpsertedIsSound DEF Reindex
  <2> QED BY <2>1, <2>2
<1> QED BY <1>2, CommitSInv DEF Reindex, SInv, Types

LEMMA RebuildSInv ==
  ASSUME SInv, NEW order \in Orders, NEW to \in Levels, Rebuild(order, to)
  PROVE  SInv'
<1>1. disk \in [Path -> Bodies \cup {Absent}]
  BY DEF SInv, Types
<1>2. Sound(refs')
  BY <1>1, RebuiltIsSound DEF Rebuild
<1>3. commits' \in 0..MaxCommits
  BY SearchSessionAssumption DEF Rebuild, SInv, Types
<1> QED BY <1>2, <1>3, CommitSInv DEF Rebuild

LEMMA StartSInv ==
  ASSUME SInv, NEW s \in Scopes, NEW c \in BOOLEAN, Start(s, c)
  PROVE  SInv'
<1>1. /\ UNCHANGED <<disk, refs, level, edits, commits, overtaken, shown>>
      /\ UNCHANGED <<lexical, literal, vector, live, hybrid, found, unread, answer>>
      /\ pc = "idle" /\ pc' = "level" /\ scope' = s /\ context' = c /\ quiet' = TRUE
  BY DEF Start, world, rows, Goto
<1>2. LiteralRows' = LiteralRows
  BY <1>1, SameHits
<1>3. Types'
  BY <1>1, <1>2 DEF SInv, Types, Staged
<1>4. Staged' /\ Witnessed' /\ Current'
  BY <1>1 DEF SInv, Staged, Witnessed, Current, Querying
<1>5. LiteralRows = {} /\ found = {} /\ DOMAIN live = {}
  BY <1>1 DEF SInv, Staged, LiteralRows
<1>6. \A p \in scope' : Fresh(p)'
  BY <1>1, SameFresh DEF Start
<1>7. Calm'
  BY <1>1, <1>2, <1>5, <1>6 DEF Calm, Querying
<1> QED BY <1>3, <1>4, <1>7 DEF SInv

LEMMA ReadLevelSInv == SInv /\ ReadLevel => SInv'
<1> SUFFICES ASSUME SInv, ReadLevel PROVE SInv'
  OBVIOUS
<1>1. /\ UNCHANGED <<disk, refs, level, edits, commits, scope, context, answer, quiet>>
      /\ UNCHANGED <<lexical, literal, vector, live, found, unread>>
      /\ pc = "level" /\ pc' = "lexical" /\ hybrid' = (level = "fts+vector")
      /\ overtaken' = FALSE /\ shown' = LinesOf(disk)
  BY DEF ReadLevel, world, rows, Goto
<1>2. LiteralRows' = LiteralRows
  BY <1>1, SameHits
<1>3. Types'
  BY <1>1, <1>2 DEF SInv, Types
<1>4. /\ LiteralRows = {} /\ found = {} /\ DOMAIN live = {}
      /\ lexical = {} /\ literal = {} /\ vector = {} /\ unread = {}
  BY <1>1 DEF SInv, Staged, LiteralRows
<1>5. Staged' /\ Witnessed' /\ Current'
  BY <1>1, <1>2, <1>4 DEF Staged, Witnessed, Current, Querying
<1>6. Calm'
  BY <1>1, <1>2, <1>4, SameFresh DEF SInv, Calm, Querying
<1> QED BY <1>3, <1>5, <1>6 DEF SInv

LEMMA EndSInv == SInv /\ End => SInv'
<1> SUFFICES ASSUME SInv, End PROVE SInv'
  OBVIOUS
<1>1. /\ UNCHANGED <<disk, refs, level, edits, commits>>
      /\ pc' = "idle" /\ scope' = {} /\ context' = FALSE /\ hybrid' = FALSE
      /\ lexical' = {} /\ found' = {} /\ unread' = {} /\ literal' = {} /\ vector' = {}
      /\ live' = <<>> /\ quiet' = TRUE /\ overtaken' = FALSE
  BY DEF End, world, Goto
<1>2. LiteralRows' = {} /\ DOMAIN live' = {} /\ IsFiniteSet({})
  BY <1>1, FS_EmptySet DEF LiteralRows
<1>3. Types'
  BY <1>1, <1>2 DEF SInv, Types
<1>4. Staged' /\ Witnessed' /\ Current' /\ Calm'
  BY <1>1, <1>2 DEF Staged, Witnessed, Current, Calm, Querying
<1> QED BY <1>3, <1>4 DEF SInv

-----------------------------------------------------------------------------
(* A search that nobody disturbs                                             *)

LEMMA CutWhole ==
  ASSUME NEW S, IsFiniteSet(S), NEW k \in Nat, Cardinality(S) <= k, NEW T \in Cut(k, S)
  PROVE  T = S
<1>1. Cardinality(S) \in Nat
  BY FS_CardinalityType
<1>2. T \in SUBSET S /\ Cardinality(T) = Cardinality(S)
  BY <1>1 DEF Cut, kSubset
<1> QED BY <1>2, FS_Subset

\* The rows that some channel finds, and what it is to find one.
Matching == {r \in refs : /\ r.file \in scope
                          /\ r.text \in Lexical \cup Literal \/ (hybrid /\ r.text \in Similar)}

TruthOf(r) == [file |-> r.file, index |-> r.index, f |-> r.text \in Lexical,
               r |-> r.text \in Literal, v |-> hybrid /\ r.text \in Similar]

LEMMA ScopeType ==
  ASSUME Types
  PROVE  scope \subseteq Path /\ unread \subseteq Path
BY SearchSessionAssumption DEF Types

LEMMA FreshRow ==
  ASSUME Types, \A p \in scope : Fresh(p), NEW r \in refs, r.file \in scope
  PROVE  /\ disk[r.file] # Absent /\ disk[r.file] \in Bodies
         /\ r.line \in ChunkLines(disk[r.file]) /\ r.text = disk[r.file][r.line]
         /\ r.index = IndexOf(disk[r.file], r.line)
<1>1. r.file \in Path
  BY ScopeType
<1>2. RowsAre(refs, r.file, disk[r.file])
  BY <1>1, FreshIs DEF Types
<1> QED BY <1>1, <1>2 DEF RowsAre, Types

LEMMA TruthIs ==
  ASSUME Types, \A p \in scope : Fresh(p)
  PROVE  /\ Truth = {TruthOf(r) : r \in Matching}
         /\ IsFiniteSet(Matching) /\ Cardinality(Truth) = Cardinality(Matching)
         /\ \A r, s \in Matching : TruthOf(r) = TruthOf(s) => r = s
<1> DEFINE Found(d) == {m \in ChunkLines(d) : \/ d[m] \in Lexical \cup Literal
                                              \/ hybrid /\ d[m] \in Similar}
           LabelsAt(p, d, n) ==
             [file |-> p, index |-> IndexOf(d, n), f |-> d[n] \in Lexical,
              r |-> d[n] \in Literal, v |-> hybrid /\ d[n] \in Similar]
           there == {q \in scope : disk[q] # Absent}
<1>1. Truth = UNION {{LabelsAt(p, disk[p], n) : n \in Found(disk[p])} : p \in there}
  BY DEF Truth
<1>2. ASSUME NEW r \in Matching
      PROVE  TruthOf(r) \in Truth
  <2>1. r \in refs /\ r.file \in scope
    BY DEF Matching
  <2>2. /\ disk[r.file] # Absent
        /\ r.line \in ChunkLines(disk[r.file]) /\ r.text = disk[r.file][r.line]
        /\ r.index = IndexOf(disk[r.file], r.line)
    BY <2>1, FreshRow
  <2>3. r.file \in there /\ r.line \in Found(disk[r.file])
    BY <2>1, <2>2 DEF Matching
  <2>4. TruthOf(r) = LabelsAt(r.file, disk[r.file], r.line)
    BY <2>2 DEF TruthOf
  <2> QED BY <1>1, <2>3, <2>4
<1>3. ASSUME NEW t \in Truth
      PROVE  \E r \in Matching : t = TruthOf(r)
  <2>1. PICK p \in there : t \in {LabelsAt(p, disk[p], n) : n \in Found(disk[p])}
    BY <1>1
  <2>2. PICK n \in Found(disk[p]) : t = LabelsAt(p, disk[p], n)
    BY <2>1
  <2>3. p \in Path /\ RowsAre(refs, p, disk[p]) /\ disk[p] # Absent
    BY ScopeType, FreshIs DEF Types
  <2>4. PICK r \in refs : r.file = p /\ r.line = n
    BY <2>2, <2>3 DEF RowsAre
  <2>5. r.text = disk[p][n] /\ r.index = IndexOf(disk[p], n)
    BY <2>3, <2>4 DEF RowsAre
  <2>6. r \in Matching
    BY <2>1, <2>2, <2>4, <2>5 DEF Matching
  <2>7. t = TruthOf(r)
    BY <2>2, <2>4, <2>5 DEF TruthOf
  <2> QED BY <2>6, <2>7
<1>4. IsFiniteSet(Matching)
  BY FS_Subset DEF Matching, Types, Sound
<1>5. \A r, s \in Matching : TruthOf(r) = TruthOf(s) => r = s
  <2> SUFFICES ASSUME NEW r \in Matching, NEW s \in Matching, TruthOf(r) = TruthOf(s)
               PROVE  r = s
    OBVIOUS
  <2>1. r.file = s.file /\ r.index = s.index
    BY DEF TruthOf
  <2>2. r \in refs /\ s \in refs /\ Keyed(refs)
    BY DEF Matching, Types, Sound
  <2> QED BY <2>1, <2>2 DEF Keyed
<1>6. Truth = {TruthOf(r) : r \in Matching}
  BY <1>2, <1>3
<1> DEFINE f == [r \in Matching |-> TruthOf(r)]
<1>7. DOMAIN f = Matching /\ \A r \in Matching : f[r] = TruthOf(r)
  OBVIOUS
<1> HIDE DEF f
<1>8. Cardinality({f[r] : r \in Matching}) = Cardinality(Matching)
  BY <1>4, <1>5, <1>7, CountOfImage
<1>9. {f[r] : r \in Matching} = Truth
  BY <1>6, <1>7
<1> QED BY <1>4, <1>5, <1>6, <1>8, <1>9

\* When few chunks match, no channel finds too many.
LEMMA FewRows ==
  ASSUME Types, \A p \in scope : Fresh(p), Few, NEW rs \in SUBSET Matching
  PROVE  IsFiniteSet(rs) /\ Cardinality(rs) <= CandidateLimit
<1>1. IsFiniteSet(Matching) /\ Cardinality(Matching) <= CandidateLimit
  BY TruthIs DEF Few
<1>2. IsFiniteSet(rs) /\ Cardinality(rs) <= Cardinality(Matching)
  BY <1>1, FS_Subset
<1>3. Cardinality(rs) \in Nat /\ Cardinality(Matching) \in Nat /\ CandidateLimit \in Nat
  BY <1>1, <1>2, FS_CardinalityType, SearchSessionAssumption
<1> QED BY <1>1, <1>2, <1>3

LEMMA FewTexts ==
  ASSUME NEW rs, IsFiniteSet(rs), Cardinality(rs) <= CandidateLimit
  PROVE  /\ IsFiniteSet({r.text : r \in rs})
         /\ Cardinality({r.text : r \in rs}) <= CandidateLimit
<1> DEFINE texts == {r.text : r \in rs}
           f == [r \in rs |-> r.text]
<1>1. f \in Surjection(rs, texts)
  BY DEF Surjection
<1> HIDE DEF f, texts
<1>2. IsFiniteSet(texts) /\ Cardinality(texts) <= Cardinality(rs)
  BY <1>1, FS_Surjection
<1>3. Cardinality(rs) \in Nat /\ Cardinality(texts) \in Nat /\ CandidateLimit \in Nat
  BY <1>2, FS_CardinalityType, SearchSessionAssumption
<1>4. IsFiniteSet(texts) /\ Cardinality(texts) <= CandidateLimit
  BY <1>2, <1>3
<1> QED BY <1>4 DEF texts

-----------------------------------------------------------------------------
(* The steps of the query                                                    *)

LEMMA ReadLexicalSInv == SInv /\ ReadLexical => SInv'
<1> SUFFICES ASSUME SInv, ReadLexical PROVE SInv'
  OBVIOUS
<1>1. /\ UNCHANGED <<disk, refs, level, edits, commits, scope, context, hybrid, answer>>
      /\ UNCHANGED <<literal, vector, live, found, quiet, overtaken, shown>>
      /\ pc = "lexical" /\ pc' = "rg" /\ unread' = scope
      /\ lexical' \in Cut(CandidateLimit, Of(Lexical))
  BY DEF ReadLexical, world, history, Goto, Of
<1>2. literal = {} /\ literal' = {} /\ found = {} /\ vector = {} /\ DOMAIN live = {}
  BY <1>1 DEF SInv, Staged
<1>3. LiteralRows' = {} /\ LiteralRows = {}
  BY <1>2 DEF LiteralRows
<1>4. IsFiniteSet(Of(Lexical)) /\ Of(Lexical) \subseteq Row
  BY FS_Subset DEF SInv, Types, Sound, Of
<1>5. lexical' \subseteq Of(Lexical) /\ IsFiniteSet(lexical')
  BY <1>1, <1>4, CutIs, SearchSessionAssumption
<1>6. Types'
  BY <1>1, <1>2, <1>3, <1>4, <1>5, FS_EmptySet DEF SInv, Types
<1>7. Staged' /\ Witnessed'
  BY <1>1, <1>2 DEF SInv, Staged, Witnessed, Querying
<1>8. Current'
  BY <1>1, <1>2, <1>3, <1>5 DEF Current, Of
<1>9. Calm'
  <2> SUFFICES ASSUME quiet PROVE Calm'
    BY <1>1 DEF Calm
  <2>1. (\A p \in scope : Fresh(p)) /\ hybrid = (level = "fts+vector") /\ ~overtaken
    BY <1>1 DEF SInv, Calm, Querying
  <2>2. Few => lexical' = Of(Lexical)
    <3>1. Of(Lexical) \in SUBSET Matching
      BY DEF Of, Matching
    <3>2. ASSUME Few
          PROVE  IsFiniteSet(Of(Lexical)) /\ Cardinality(Of(Lexical)) <= CandidateLimit
      BY <2>1, <3>1, <3>2, FewRows DEF SInv
    <3> QED BY <1>1, <3>2, CutWhole, SearchSessionAssumption
  <2>3. /\ Few' = Few /\ (\A p : Fresh(p)' = Fresh(p))
        /\ Of(Lexical)' = Of(Lexical) /\ Of(Literal)' = Of(Literal)
    BY <1>1, SameRows, SameTruth, SameFresh
  <2>4. \A r \in Of(Literal) : r.file \in unread'
    BY <1>1 DEF Of
  <2> QED BY <1>1, <1>2, <1>3, <2>1, <2>2, <2>3, <2>4 DEF Calm, Querying
<1> QED BY <1>6, <1>7, <1>8, <1>9 DEF SInv

LEMMA GrepSInv ==
  ASSUME SInv, NEW p \in Path, Grep(p)
  PROVE  SInv'
<1> DEFINE new == {l \in LinesOf(disk) : l.file = p /\ l.text \in Literal}
<1>1. /\ UNCHANGED <<disk, refs, level, edits, commits, pc, scope, context, hybrid, answer>>
      /\ UNCHANGED <<lexical, literal, vector, live, quiet, overtaken, shown>>
      /\ pc = "rg" /\ p \in unread /\ unread' = unread \ {p}
      /\ found' = found \cup new
  BY DEF Grep, world, history
<1>2. LiteralRows' = LiteralRows
  BY <1>1, SameHits
<1>3. ASSUME NEW h \in new
      PROVE  /\ disk[p] # Absent /\ h.file = p /\ h.line \in DOMAIN disk[p]
             /\ h.text = disk[p][h.line] /\ h.text \in Literal /\ h \in RgHit
  <2>1. /\ h.file = p /\ h.text \in Literal
        /\ \E q \in Path : /\ disk[q] # Absent
                          /\ \E n \in DOMAIN disk[q] : h = LineAt(q, n, disk[q][n])
    BY DEF LinesOf, LineAt
  <2>2. PICK n \in DOMAIN disk[p] : h = LineAt(p, n, disk[p][n])
    BY <2>1 DEF LineAt
  <2>4. disk[p] # Absent /\ disk[p] \in Bodies /\ disk[p][n] \in Literal
    BY <2>1, <2>2 DEF LineAt, SInv, Types
  <2>3. n \in Nat /\ disk[p][n] \in Text
    BY <2>4, SearchSessionAssumption DEF Text
  <2> QED BY <2>1, <2>2, <2>3, <2>4 DEF RgHit, LineAt
<1> HIDE DEF new
<1>4. Types'
  BY <1>1, <1>2, <1>3 DEF SInv, Types
<1>5. Staged' /\ Current'
  BY <1>1, <1>2 DEF SInv, Staged, Current, Querying
<1>6. Witnessed'
  <2>1. ASSUME NEW h \in new
        PROVE  h \in shown /\ h.text \in Literal
    <3>1. h \in LinesOf(disk) /\ h.text \in Literal
      BY DEF new
    <3> QED BY <1>1, <3>1 DEF SInv, Witnessed, Querying
  <2> QED BY <1>1, <2>1 DEF SInv, Witnessed, Querying
<1>7. Calm'
  <2> SUFFICES ASSUME quiet PROVE Calm'
    BY <1>1 DEF Calm
  <2>1. \A q \in scope : Fresh(q)
    BY <1>1 DEF SInv, Calm
  <2>2. /\ Few' = Few /\ (\A q : Fresh(q)' = Fresh(q))
        /\ Of(Lexical)' = Of(Lexical) /\ Of(Literal)' = Of(Literal)
    BY <1>1, SameRows, SameTruth, SameFresh
  <2>3. ASSUME NEW h \in found'
        PROVE  /\ h.file \in scope /\ disk[h.file] # Absent
               /\ h.line \in DOMAIN disk[h.file] /\ disk[h.file][h.line] \in Literal
    <3>1. p \in scope
      BY <1>1 DEF SInv, Types
    <3> QED BY <1>1, <1>3, <3>1 DEF SInv, Calm
  <2>4. ASSUME NEW r \in Of(Literal)
        PROVE  \/ r.file \in unread' \/ r \in LiteralRows
               \/ \E h \in found' : h.file = r.file /\ h.line = r.line
    <3>1. CASE r.file # p
      BY <1>1, <3>1 DEF SInv, Calm
    <3>2. CASE r.file = p
      <4>1. /\ disk[p] # Absent /\ r.line \in DOMAIN disk[p] /\ disk[p][r.line] \in Literal
        BY <2>1, <3>2, FreshRow DEF SInv, Of, ChunkLines
      <4>2. [file |-> p, line |-> r.line, text |-> disk[p][r.line]] \in new
        BY <4>1, <1>1, ScopeType DEF new, LinesOf, SInv
      <4> QED BY <1>1, <3>2, <4>2
    <3> QED BY <3>1, <3>2
  <2> QED BY <1>1, <1>2, <2>1, <2>2, <2>3, <2>4 DEF SInv, Calm, Querying
<1> QED BY <1>4, <1>5, <1>6, <1>7 DEF SInv

\* One row of a path has a line.
LEMMA OneCovering ==
  ASSUME Sound(refs), NEW hit, hit.file \in Path, NEW r \in Covering(hit), NEW s \in Covering(hit)
  PROVE  r = s
<1>1. r \in refs /\ s \in refs /\ r.file = hit.file /\ s.file = hit.file /\ r.line = s.line
  BY DEF Covering
<1>2. PICK body \in Bodies \cup {Absent} : RowsAre(refs, hit.file, body)
  BY DEF Sound
<1>3. r.index = IndexOf(body, r.line) /\ s.index = IndexOf(body, s.line)
  BY <1>1, <1>2 DEF RowsAre
<1> QED BY <1>1, <1>3 DEF Sound, Keyed

LEMMA LookupSInv ==
  ASSUME SInv, NEW hit \in found, Lookup(hit)
  PROVE  SInv'
<1> DEFINE Listed(r) == [row |-> r, line |-> hit.text]
<1>1. /\ UNCHANGED <<disk, refs, level, edits, commits, pc, scope, context, hybrid, answer>>
      /\ UNCHANGED <<lexical, unread, vector, live, quiet, overtaken, shown>>
      /\ pc = "rg" /\ unread = {} /\ found' = found \ {hit}
  BY DEF Lookup, world, history
<1>2. \/ Covering(hit) = {} /\ literal' = literal
      \/ \E r \in Covering(hit) : /\ literal' = literal
                                  /\ \E l \in literal : l.row.id = r.id
      \/ \E r \in Covering(hit) : literal' = literal \cup {Listed(r)}
  BY DEF Lookup
<1>3. hit \in RgHit /\ hit.file \in Path /\ hit.text \in Text
  BY DEF SInv, Types, RgHit
<1>4. literal \subseteq literal'
  BY <1>2
<1>5. ASSUME NEW l \in literal', l \notin literal
      PROVE  \E r \in refs : /\ l = Listed(r) /\ r.file = hit.file /\ r.line = hit.line
                             /\ literal' = literal \cup {l}
  BY <1>2, <1>5 DEF Covering
<1> HIDE DEF Listed
<1>6. \A r : Listed(r).row = r /\ Listed(r).line = hit.text
  BY DEF Listed
<1>7. LiteralRows' = {l.row : l \in literal'}
  BY DEF LiteralRows
<1>8. Types'
  <2>1. literal' \subseteq LiteralRow
    <3>1. \A r \in refs : Listed(r) \in LiteralRow
      BY <1>3 DEF Listed, LiteralRow, SInv, Types, Sound
    <3> QED BY <1>5, <3>1 DEF SInv, Types
  <2>2. IsFiniteSet(LiteralRows')
    <3>1. CASE literal' = literal
      BY <1>7, <3>1 DEF SInv, Types, LiteralRows
    <3>2. CASE literal' # literal
      <4>1. PICK l \in literal' : l \notin literal
        BY <1>4, <3>2
      <4>2. literal' = literal \cup {l}
        BY <1>5, <4>1
      <4>3. LiteralRows' = LiteralRows \cup {l.row}
        BY <1>7, <4>2 DEF LiteralRows
      <4> QED BY <4>3, FS_AddElement DEF SInv, Types
    <3> QED BY <3>1, <3>2
  <2>3. found' \subseteq RgHit
    BY <1>1 DEF SInv, Types
  <2> QED BY <1>1, <2>1, <2>2, <2>3 DEF SInv, Types
<1>9. Staged'
  BY <1>1 DEF SInv, Staged
<1>10. Witnessed'
  <2>1. ASSUME NEW l \in literal'
        PROVE  LineAt(l.row.file, l.row.line, l.line) \in shown /\ l.line \in Literal
    <3>1. CASE l \in literal
      BY <1>1, <3>1 DEF SInv, Witnessed, Querying
    <3>2. CASE l \notin literal
      <4>1. l.row.file = hit.file /\ l.row.line = hit.line /\ l.line = hit.text
        BY <1>5, <1>6, <3>2
      <4>2. hit \in shown /\ hit.text \in Literal
        BY <1>1 DEF SInv, Witnessed, Querying
      <4>3. hit = LineAt(hit.file, hit.line, hit.text)
        BY <1>3 DEF RgHit, LineAt
      <4> QED BY <4>1, <4>2, <4>3
    <3> QED BY <3>1, <3>2
  <2> QED BY <1>1, <2>1 DEF SInv, Witnessed, Querying
<1>11. ASSUME NEW x \in LiteralRows', x \notin LiteralRows
       PROVE  x \in refs /\ x.file = hit.file /\ x.line = hit.line
  <2>1. PICK l \in literal' : x = l.row
    BY <1>7, <1>11
  <2>2. l \notin literal
    BY <1>11, <2>1 DEF LiteralRows
  <2> QED BY <1>5, <1>6, <2>1, <2>2
<1>12. Current'
  BY <1>1, <1>11 DEF SInv, Current, Querying
<1>13. Calm'
  <2> SUFFICES ASSUME quiet PROVE Calm'
    BY <1>1 DEF Calm
  <2>1. /\ \A q \in scope : Fresh(q)
        /\ ~overtaken /\ hit.file \in scope
        /\ disk[hit.file][hit.line] \in Literal
    BY <1>1 DEF SInv, Calm, Querying
  <2>2. /\ Few' = Few /\ (\A q : Fresh(q)' = Fresh(q))
        /\ Of(Lexical)' = Of(Lexical) /\ Of(Literal)' = Of(Literal)
    BY <1>1, SameRows, SameTruth, SameFresh
  <2>3. LiteralRows' \subseteq Of(Literal)
    <3>1. ASSUME NEW x \in LiteralRows', x \notin LiteralRows
          PROVE  x \in Of(Literal)
      <4>1. x.text = disk[x.file][x.line]
        BY <1>11, <2>1, <3>1, FreshRow DEF SInv
      <4> QED BY <1>11, <2>1, <3>1, <4>1 DEF Of
    <3> QED BY <1>1, <3>1 DEF SInv, Calm
  <2>4. LiteralRows \subseteq LiteralRows'
    BY <1>4, <1>7 DEF LiteralRows
  <2>5. ASSUME NEW r \in Of(Literal)
        PROVE  \/ r.file \in unread' \/ r \in LiteralRows'
               \/ \E h \in found' : h.file = r.file /\ h.line = r.line
    <3>1. CASE r \in LiteralRows
      BY <2>4, <3>1
    <3>2. CASE r \notin LiteralRows
      <4>1. PICK h \in found : h.file = r.file /\ h.line = r.line
        BY <1>1, <3>2 DEF SInv, Calm
      <4>2. CASE h # hit
        BY <1>1, <4>1, <4>2
      <4>3. CASE h = hit
        <5>1. r \in Covering(hit)
          BY <4>1, <4>3 DEF Of, Covering
        <5>2. \A s \in Covering(hit) : s = r
          BY <1>3, <5>1, OneCovering DEF SInv, Types
        <5>3. ASSUME NEW l \in literal, l.row.id = r.id
              PROVE  r \in LiteralRows
          <6>1. l.row \in refs /\ l.row \in LiteralRows
            BY <1>1, <2>1 DEF SInv, Current, LiteralRows, Querying
          <6>2. l.row = r
            BY <5>1, <5>3, <6>1 DEF SInv, Types, Sound, Keyed, Covering
          <6> QED BY <6>1, <6>2
        <5>4. literal' = literal \cup {Listed(r)}
          BY <1>2, <3>2, <5>1, <5>2, <5>3
        <5> QED BY <1>6, <1>7, <5>4
      <4> QED BY <4>2, <4>3
    <3> QED BY <3>1, <3>2
  <2>6. \A h \in found' : h \in found
    BY <1>1
  <2> QED BY <1>1, <2>1, <2>2, <2>3, <2>5, <2>6 DEF SInv, Calm, Querying
<1> QED BY <1>8, <1>9, <1>10, <1>12, <1>13 DEF SInv

LEMMA ReadVectorSInv == SInv /\ ReadVector => SInv'
<1> SUFFICES ASSUME SInv, ReadVector PROVE SInv'
  OBVIOUS
<1> DEFINE near == IF hybrid /\ level = "fts+vector" THEN Of(Similar) ELSE {}
<1>1. /\ UNCHANGED <<disk, refs, level, edits, commits, scope, context, hybrid, answer>>
      /\ UNCHANGED <<lexical, found, unread, literal, live, quiet, overtaken, shown>>
      /\ pc = "rg" /\ pc' = "snippets" /\ unread = {} /\ found = {}
  BY DEF ReadVector, world, history, Goto
<1>2. PICK texts \in Cut(CandidateLimit, {r.text : r \in near}) :
        vector' = {r \in near : r.text \in texts}
  BY DEF ReadVector, Of
<1>3. near \subseteq Of(Similar) /\ Of(Similar) \subseteq refs
  BY DEF Of
<1>4. refs \subseteq Row /\ IsFiniteSet(refs)
  BY DEF SInv, Types, Sound
<1> HIDE DEF near
<1>5. vector' \subseteq near /\ vector' \subseteq Row /\ IsFiniteSet(vector') /\ IsFiniteSet(near)
  BY <1>2, <1>3, <1>4, FS_Subset
<1>6. LiteralRows' = LiteralRows
  BY <1>1 DEF LiteralRows
<1>7. Types'
  BY <1>1, <1>5, <1>6 DEF SInv, Types
<1>8. Staged' /\ Witnessed'
  BY <1>1 DEF SInv, Staged, Witnessed, Querying
<1>9. Current'
  BY <1>1, <1>3, <1>5, <1>6 DEF SInv, Current, Querying, Of
<1>10. Calm'
  <2> SUFFICES ASSUME quiet PROVE Calm'
    BY <1>1 DEF Calm
  <2>1. (\A p \in scope : Fresh(p)) /\ hybrid = (level = "fts+vector") /\ ~overtaken
    BY <1>1 DEF SInv, Calm, Querying
  <2>2. near = IF hybrid THEN Of(Similar) ELSE {}
    BY <2>1 DEF near
  <2>3. Few => vector' = near
    <3>1. near \in SUBSET Matching
      BY <2>2 DEF Of, Matching
    <3>2. ASSUME Few
          PROVE  IsFiniteSet(near) /\ Cardinality(near) <= CandidateLimit
      BY <2>1, <3>1, <3>2, FewRows DEF SInv
    <3>3. ASSUME Few
          PROVE  texts = {r.text : r \in near}
      <4>1. /\ IsFiniteSet({r.text : r \in near})
            /\ Cardinality({r.text : r \in near}) <= CandidateLimit
        BY <3>2, <3>3, FewTexts
      <4> QED BY <1>2, <4>1, CutWhole, SearchSessionAssumption
    <3> QED BY <1>2, <3>3
  <2>4. /\ Few' = Few /\ (\A p : Fresh(p)' = Fresh(p)) /\ Of(Similar)' = Of(Similar)
        /\ Of(Lexical)' = Of(Lexical) /\ Of(Literal)' = Of(Literal)
    BY <1>1, SameRows, SameTruth, SameFresh
  <2> QED BY <1>1, <1>6, <2>1, <2>2, <2>3, <2>4 DEF SInv, Calm, Querying
<1> QED BY <1>7, <1>8, <1>9, <1>10 DEF SInv

LEMMA ReadLiveSInv ==
  ASSUME SInv, NEW p \in Path, ReadLive(p)
  PROVE  SInv'
<1>1. /\ UNCHANGED <<disk, refs, level, edits, commits, pc, scope, context, hybrid, answer>>
      /\ UNCHANGED <<lexical, found, unread, literal, vector, quiet, overtaken, shown>>
      /\ pc = "snippets"
  BY DEF ReadLive, world, history
<1>2. /\ DOMAIN live' = DOMAIN live \cup {p}
      /\ \A q \in DOMAIN live' : live'[q] = IF q = p THEN disk[p] ELSE live[q]
  BY DEF ReadLive
<1>3. LiteralRows' = LiteralRows
  BY <1>1, SameHits
<1>4. Types'
  BY <1>1, <1>2, <1>3 DEF SInv, Types
<1>5. Staged' /\ Current'
  BY <1>1, <1>3 DEF SInv, Staged, Current, Querying
<1>6. Witnessed'
  <2>1. disk[p] # Absent => \A n \in DOMAIN disk[p] : LineAt(p, n, disk[p][n]) \in LinesOf(disk)
    BY DEF LinesOf, LineAt
  <2> QED BY <1>1, <1>2, <2>1 DEF SInv, Witnessed, Querying
<1>7. Calm'
  <2>1. /\ Few' = Few /\ (\A q : Fresh(q)' = Fresh(q)) /\ Of(Similar)' = Of(Similar)
        /\ Of(Lexical)' = Of(Lexical) /\ Of(Literal)' = Of(Literal)
    BY <1>1, SameRows, SameTruth, SameFresh
  <2> QED BY <1>1, <1>2, <1>3, <2>1 DEF SInv, Calm, Querying
<1> QED BY <1>4, <1>5, <1>6, <1>7 DEF SInv

LEMMA ShowPageSInv == SInv /\ ShowPage => SInv'
<1> SUFFICES ASSUME SInv, ShowPage PROVE SInv'
  OBVIOUS
<1>1. /\ UNCHANGED <<disk, refs, level, edits, commits, scope, context, hybrid>>
      /\ UNCHANGED <<lexical, found, unread, literal, vector, live, quiet, overtaken, shown>>
      /\ pc = "snippets" /\ pc' = "answered"
  BY DEF ShowPage, world, rows, history, Goto
<1>2. LiteralRows' = LiteralRows /\ Merged' = Merged /\ Materialized' = Materialized
  BY <1>1, SameHits, SamePages
<1>3. Types'
  BY <1>1, <1>2 DEF SInv, Types
<1>4. Staged'
  BY <1>1, <1>2 DEF SInv, Staged, ShowPage
<1>5. Witnessed' /\ Current'
  BY <1>1, <1>2 DEF SInv, Witnessed, Current, Querying
<1>6. Calm'
  <2>1. /\ Few' = Few /\ (\A q : Fresh(q)' = Fresh(q)) /\ Of(Similar)' = Of(Similar)
        /\ Of(Lexical)' = Of(Lexical) /\ Of(Literal)' = Of(Literal)
    BY <1>1, SameRows, SameTruth, SameFresh
  <2> QED BY <1>1, <1>2, <2>1 DEF SInv, Calm, Querying
<1> QED BY <1>3, <1>4, <1>5, <1>6 DEF SInv

LEMMA NextSInv == SInv /\ [Next]_vars => SInv'
<1> SUFFICES ASSUME SInv, [Next]_vars PROVE SInv'
  OBVIOUS
<1>1. ASSUME NEW p \in Path, NEW body \in Bodies \cup {Absent}, Edit(p, body)
      PROVE  SInv'
  BY <1>1, EditSInv
<1>2. ASSUME NEW p \in Path, Reindex(p) \/ Grep(p) \/ ReadLive(p)
      PROVE  SInv'
  BY <1>2, ReindexSInv, GrepSInv, ReadLiveSInv
<1>3. ASSUME NEW order \in Orders, NEW to \in Levels, Rebuild(order, to)
      PROVE  SInv'
  BY <1>3, RebuildSInv
<1>4. ASSUME NEW s \in Scopes, NEW c \in BOOLEAN, Start(s, c)
      PROVE  SInv'
  BY <1>4, StartSInv
<1>5. ASSUME NEW hit \in found, Lookup(hit)
      PROVE  SInv'
  BY <1>5, LookupSInv
<1>6. CASE ReadLevel \/ ReadLexical \/ ReadVector \/ ShowPage \/ End
  BY <1>6, ReadLevelSInv, ReadLexicalSInv, ReadVectorSInv, ShowPageSInv, EndSInv
<1>7. CASE UNCHANGED vars
  <2>1. /\ UNCHANGED <<disk, refs, level, edits, commits, pc, scope, context, hybrid, answer>>
        /\ UNCHANGED <<lexical, found, unread, literal, vector, live, quiet, overtaken, shown>>
    BY <1>7 DEF vars, world, session, rows, history
  <2>2. LiteralRows' = LiteralRows /\ Merged' = Merged /\ Materialized' = Materialized
    BY <2>1, SameHits, SamePages
  <2>3. /\ Few' = Few /\ (\A q : Fresh(q)' = Fresh(q)) /\ Of(Similar)' = Of(Similar)
        /\ Of(Lexical)' = Of(Lexical) /\ Of(Literal)' = Of(Literal)
    BY <2>1, SameRows, SameTruth, SameFresh
  <2>4. Types'
    BY <2>1, <2>2 DEF SInv, Types
  <2>5. Staged' /\ Witnessed' /\ Current'
    BY <2>1, <2>2 DEF SInv, Staged, Witnessed, Current, Querying
  <2>6. Calm'
    BY <2>1, <2>2, <2>3 DEF SInv, Calm, Querying
  <2> QED BY <2>4, <2>5, <2>6 DEF SInv
<1> QED BY <1>1, <1>2, <1>3, <1>4, <1>5, <1>6, <1>7 DEF Next

LEMMA SessionsHold == Spec => []SInv
BY InitSInv, NextSInv, PTL DEF Spec

\* Types, and the keys of chunk_refs stay unique, although rowids are reused
\* and given out by several processes.
THEOREM SessionTypes == Spec => []TypeOK
<1>1. SInv => TypeOK
  BY DEF SInv, Types, Sound, Keyed, TypeOK
<1> QED BY <1>1, SessionsHold, PTL

-----------------------------------------------------------------------------
(* The hits                                                                  *)

Listed == lexical \cup LiteralRows \cup vector

FirstRow(id) ==
  CHOOSE r \in IF id \in Ids(lexical) THEN lexical
               ELSE IF id \in Ids(LiteralRows) THEN LiteralRows ELSE vector : r.id = id

MergedHit(id) ==
  [file |-> FirstRow(id).file, index |-> FirstRow(id).index,
   f |-> id \in Ids(lexical), r |-> id \in Ids(LiteralRows), v |-> id \in Ids(vector),
   line |-> IF id \in Ids(LiteralRows)
            THEN (CHOOSE l \in literal : l.row.id = id).line ELSE NoLine]

LEMMA MergedIs == Merged = {MergedHit(id) : id \in Ids(Listed)}
BY DEF Merged, MergedHit, FirstRow, LiteralRows, Listed

LEMMA FirstRowIs ==
  ASSUME NEW id \in Ids(Listed)
  PROVE  /\ FirstRow(id) \in Listed /\ FirstRow(id).id = id
         /\ id \in Ids(lexical) \cup Ids(LiteralRows) \cup Ids(vector)
<1>1. id \in Ids(lexical) \cup Ids(LiteralRows) \cup Ids(vector)
  BY DEF Ids, Listed
<1> DEFINE from == IF id \in Ids(lexical) THEN lexical
                   ELSE IF id \in Ids(LiteralRows) THEN LiteralRows ELSE vector
<1>2. \E r \in from : r.id = id
  BY <1>1 DEF Ids
<1>3. from \subseteq Listed
  BY DEF Listed
<1>4. FirstRow(id) = CHOOSE r \in from : r.id = id
  BY DEF FirstRow
<1> HIDE DEF from
<1> QED BY <1>1, <1>2, <1>3, <1>4

\* Every hit was found by some channel.
LabelsOK(h) ==
  /\ h.f \in BOOLEAN /\ h.r \in BOOLEAN /\ h.v \in BOOLEAN
  /\ h.f \/ h.r \/ h.v

LEMMA MergedType ==
  ASSUME Types, NEW m \in Merged
  PROVE  m.file \in Path /\ m.index \in Nat /\ LabelsOK(m)
<1>1. PICK id \in Ids(Listed) : m = MergedHit(id)
  BY MergedIs
<1>2. /\ FirstRow(id) \in Listed
      /\ id \in Ids(lexical) \cup Ids(LiteralRows) \cup Ids(vector)
  BY FirstRowIs
<1>3. FirstRow(id) \in Row
  BY <1>2 DEF Listed, Types, LiteralRows, LiteralRow
<1>4. m.file \in Path /\ m.index \in Nat
  BY <1>1, <1>3 DEF MergedHit, Row
<1>5. LabelsOK(m)
  <2>1. /\ m.f = (id \in Ids(lexical)) /\ m.r = (id \in Ids(LiteralRows))
        /\ m.v = (id \in Ids(vector))
    BY <1>1, Zenon DEF MergedHit
  <2>2. \A S : (id \in S) \in BOOLEAN
    OBVIOUS
  <2>3. m.f \in BOOLEAN /\ m.r \in BOOLEAN /\ m.v \in BOOLEAN
    BY <2>1, <2>2, Zenon
  <2>4. m.f \/ m.r \/ m.v
    BY <1>2, <2>1, Zenon
  <2> QED BY <2>3, <2>4 DEF LabelsOK
<1> QED BY <1>4, <1>5

LEMMA FiniteHits ==
  ASSUME Types
  PROVE  IsFiniteSet(Materialized) /\ \A h \in Materialized : LabelsOK(h)
<1>1. IsFiniteSet(Listed)
  BY FS_Union DEF Listed, Types
<1> DEFINE f == [r \in Listed |-> r.id]
           g == [id \in Ids(Listed) |-> MergedHit(id)]
           kept == {m \in Merged : Kept(m)}
           e == [m \in kept |-> Hit(m)]
<1>2. f \in Surjection(Listed, Ids(Listed))
  BY DEF Surjection, Ids
<1>3. g \in Surjection(Ids(Listed), Merged)
  BY MergedIs DEF Surjection
<1>4. e \in Surjection(kept, Materialized)
  BY DEF Surjection, Materialized
<1>5. \A h \in Materialized : LabelsOK(h)
  BY MergedType DEF Materialized, Hit, LabelsOK
<1> HIDE DEF f, g, e
<1>6. IsFiniteSet(Merged)
  BY <1>1, <1>2, <1>3, FS_Surjection
<1>7. IsFiniteSet(kept)
  BY <1>6, FS_Subset
<1> QED BY <1>4, <1>5, <1>7, FS_Surjection

\* source_priority puts every hit of a text channel before every semantic one.
LEMMA PriorityIs ==
  ASSUME NEW h, LabelsOK(h)
  PROVE  /\ Priority(h) \in Nat
         /\ ~IsText(h) => Priority(h) = 101
         /\ IsText(h) => Priority(h) >= 110
BY DEF LabelsOK, IsText, Priority, Sources, AsInt

\* A page is cut from all text hits and a tail of the others.
LEMMA PageIs ==
  ASSUME NEW hits, IsFiniteSet(hits), NEW page \in Pages(hits)
  PROVE  LET text == {h \in hits : IsText(h)}
         IN  \E tail \in SUBSET (hits \ text) :
               /\ IsFiniteSet(tail)
               /\ text = {} => tail = hits
               /\ text # {} => /\ Cardinality(tail) <= SemanticLimit
                               /\ tail # hits \ text => Cardinality(tail) = SemanticLimit
               /\ page \subseteq text \cup tail
               /\ page # text \cup tail => Cardinality(page) = Limit
               /\ \A on \in page, off \in (text \cup tail) \ page : Priority(on) >= Priority(off)
<1> DEFINE text == {h \in hits : IsText(h)}
           pools == IF text = {} THEN {hits}
                    ELSE {text \cup tail : tail \in Cut(SemanticLimit, hits \ text)}
<1>1. PICK pool \in pools : /\ page \in Cut(Limit, pool)
                            /\ \A on \in page, off \in pool \ page : Priority(on) >= Priority(off)
  BY DEF Pages
<1>2. SemanticLimit \in Nat /\ Limit \in Nat
  BY SearchSessionAssumption
<1>3. text \subseteq hits /\ IsFiniteSet(hits \ text)
  BY FS_Difference
<1> HIDE DEF text
<1>4. PICK tail \in SUBSET (hits \ text) :
        /\ pool = text \cup tail /\ IsFiniteSet(tail)
        /\ text = {} => tail = hits
        /\ text # {} => /\ Cardinality(tail) <= SemanticLimit
                        /\ tail # hits \ text => Cardinality(tail) = SemanticLimit
  <2>1. CASE text = {}
    BY <1>1, <2>1
  <2>2. CASE text # {}
    <3>1. PICK tail \in Cut(SemanticLimit, hits \ text) : pool = text \cup tail
      BY <1>1, <2>2
    <3>2. /\ tail \subseteq hits \ text /\ IsFiniteSet(tail) /\ Cardinality(tail) <= SemanticLimit
          /\ tail # hits \ text => Cardinality(tail) = SemanticLimit
      BY <1>2, <1>3, <3>1, CutIs
    <3> QED BY <2>2, <3>1, <3>2
  <2> QED BY <2>1, <2>2
<1>5. IsFiniteSet(pool)
  <2>1. pool \subseteq hits
    BY <1>3, <1>4
  <2> QED BY <2>1, FS_Subset
<1>6. page \subseteq pool /\ (page # pool => Cardinality(page) = Limit)
  BY <1>1, <1>2, <1>5, CutIs
<1> QED BY <1>1, <1>4, <1>6 DEF text

\* Semantic hits are a bounded tail, and they are on the page only when every
\* text hit is: whatever is edited and committed meanwhile.
THEOREM VectorsNeverHideText == Spec => []SemanticTail
<1>1. SInv => SemanticTail
  <2> SUFFICES ASSUME SInv, pc = "answered" PROVE SemanticTail
    BY DEF SemanticTail
  <2> DEFINE text == {h \in Materialized : IsText(h)}
             last == {h \in answer : ~IsText(h)}
  <2>1. IsFiniteSet(Materialized) /\ \A h \in Materialized : LabelsOK(h)
    BY FiniteHits DEF SInv
  <2>2. answer \in Pages(Materialized)
    BY DEF SInv, Staged
  <2>3. PICK tail \in SUBSET (Materialized \ text) :
          /\ IsFiniteSet(tail)
          /\ text # {} => Cardinality(tail) <= SemanticLimit
          /\ answer \subseteq text \cup tail
          /\ \A on \in answer, off \in (text \cup tail) \ answer : Priority(on) >= Priority(off)
    BY <2>1, <2>2, PageIs
  <2>4. last \in SUBSET tail
    BY <2>3
  <2>5. text # {} => Cardinality(last) <= SemanticLimit
    <3>1. Cardinality(last) <= Cardinality(tail) /\ IsFiniteSet(last)
      BY <2>3, <2>4, FS_Subset
    <3>2. Cardinality(last) \in Nat /\ Cardinality(tail) \in Nat /\ SemanticLimit \in Nat
      BY <2>3, <3>1, FS_CardinalityType, SearchSessionAssumption
    <3> QED BY <2>3, <3>1, <3>2
  <2>6. ASSUME last # {}, NEW off \in text, off \notin answer
        PROVE  FALSE
    <3>1. PICK on \in last : TRUE
      BY <2>6
    <3>2. Priority(on) >= Priority(off)
      BY <2>3, <2>6
    <3>3. LabelsOK(on) /\ LabelsOK(off) /\ ~IsText(on) /\ IsText(off)
      BY <2>1, <2>3
    <3>4. Priority(on) = 101 /\ Priority(off) >= 110 /\ Priority(off) \in Nat
      BY <3>3, PriorityIs
    <3> QED BY <3>2, <3>4
  <2> QED BY <2>5, <2>6 DEF SemanticTail
<1> QED BY <1>1, SessionsHold, PTL

\* In the index as the channels found it, a rowid is one row.
LEMMA OneRow ==
  ASSUME SInv, Querying, ~overtaken, NEW r \in Listed, NEW s \in Listed, r.id = s.id
  PROVE  r \in refs /\ r = s
BY DEF SInv, Types, Sound, Keyed, Current, Listed

LEMMA MergedRow ==
  ASSUME SInv, Querying, ~overtaken, NEW m \in Merged
  PROVE  \E r \in Listed :
           /\ r \in refs /\ m = MergedHit(r.id) /\ FirstRow(r.id) = r
           /\ r.id \in Ids(Listed)
           /\ m.file = r.file /\ m.index = r.index
           /\ m.f <=> r \in lexical
           /\ m.r <=> r \in LiteralRows
           /\ m.v <=> r \in vector
<1>1. PICK id \in Ids(Listed) : m = MergedHit(id)
  BY MergedIs
<1> DEFINE r == FirstRow(id)
<1>2. r \in Listed /\ r.id = id
  BY FirstRowIs
<1> HIDE DEF r
<1>3. \A s \in Listed : s.id = id => s = r
  BY <1>2, OneRow
<1>4. /\ id \in Ids(lexical) <=> r \in lexical
      /\ id \in Ids(LiteralRows) <=> r \in LiteralRows
      /\ id \in Ids(vector) <=> r \in vector
  BY <1>2, <1>3 DEF Ids, Listed
<1>5. m.file = r.file /\ m.index = r.index
  BY <1>1 DEF MergedHit, r
<1>6. /\ m.f <=> id \in Ids(lexical)
      /\ m.r <=> id \in Ids(LiteralRows)
      /\ m.v <=> id \in Ids(vector)
  BY <1>1, Zenon DEF MergedHit
<1>7. FirstRow(r.id) = r
  BY <1>2 DEF r
<1> QED BY <1>1, <1>2, <1>4, <1>5, <1>6, <1>7, OneRow

\* What is shown of a hit was in its file during the query.
LEMMA SnippetIsWitnessed ==
  ASSUME SInv, Querying, ~overtaken, NEW m \in Merged, Kept(m), m.file \in DOMAIN live
  PROVE  \E l \in shown : l.file = m.file /\ l.text = Snippet(m)
<1>1. PICK r \in Listed : /\ r \in refs /\ m = MergedHit(r.id) /\ m.file = r.file
                          /\ m.r <=> r \in LiteralRows
  BY MergedRow
<1>2. m.file \in Path /\ m.index \in Nat
  BY MergedType DEF SInv
<1>3. CASE m.r /\ (~context \/ ~StillThere(m))
  <2> DEFINE l == CHOOSE x \in literal : x.row.id = r.id
  <2>1. r \in LiteralRows
    BY <1>1, <1>3
  <2>2. \E x \in literal : x.row.id = r.id
    BY <2>1 DEF LiteralRows
  <2>3. l \in literal /\ l.row.id = r.id
    BY <2>2
  <2> HIDE DEF l
  <2>4. l.row \in Listed
    BY <2>3 DEF Listed, LiteralRows
  <2>5. l.row = r
    BY <2>3, <2>4, OneRow
  <2>6. r.id \in Ids(LiteralRows)
    BY <2>1 DEF Ids
  <2>7. m.line = l.line
    BY <1>1, <2>6 DEF MergedHit, l
  <2>8. Snippet(m) = l.line
    BY <1>3, <2>7 DEF Snippet
  <2>9. LineAt(l.row.file, l.row.line, l.line) \in shown
    BY <2>3 DEF SInv, Witnessed
  <2> QED BY <1>1, <2>5, <2>8, <2>9 DEF LineAt
<1>4. CASE ~(m.r /\ (~context \/ ~StillThere(m)))
  <2>1. StillThere(m)
    BY <1>4 DEF Kept
  <2>2. /\ live[m.file] # Absent /\ live[m.file] \in Bodies
        /\ m.index < Cardinality(ChunkLines(live[m.file]))
    BY <2>1 DEF StillThere, SInv, Types
  <2>3. PICK n \in DOMAIN live[m.file] : ChunkText(live[m.file], m.index) = live[m.file][n]
    BY <1>2, <2>2, ChunkTextIs
  <2>4. Snippet(m) = live[m.file][n]
    BY <1>4, <2>3 DEF Snippet
  <2>5. LineAt(m.file, n, live[m.file][n]) \in shown
    BY <2>2 DEF SInv, Witnessed
  <2> QED BY <2>4, <2>5 DEF LineAt
<1> QED BY <1>3, <1>4

\* What rg found of a listed row was in the row's line during the query.
LEMMA LiteralIsWitnessed ==
  ASSUME SInv, Querying, NEW r \in LiteralRows
  PROVE  \E l \in shown : <<l.file, l.line>> = <<r.file, r.line>> /\ l.text \in Literal
<1>1. PICK x \in literal : x.row = r
  BY DEF LiteralRows
<1>2. LineAt(r.file, r.line, x.line) \in shown /\ x.line \in Literal
  BY <1>1 DEF SInv, Witnessed
<1> QED BY <1>2 DEF LineAt

\* As long as no other process commits, a hit names a chunk of the index and
\* shows a line its file held during the query; its full-text and vector labels
\* are true of the chunk's stored text, and its literal label of the chunk's
\* line at some moment of the query.
THEOREM HitsAreTrue == Spec => []HitsTrue
<1>1. SInv => HitsTrue
  <2> SUFFICES ASSUME SInv, pc = "answered", ~overtaken, NEW h \in answer
               PROVE  /\ \E l \in shown : l.file = h.file /\ l.text = h.snippet
                      /\ \E row \in refs :
                           /\ <<row.file, row.index>> = <<h.file, h.index>>
                           /\ (h.f => row.text \in Lexical) /\ (h.v => row.text \in Similar)
                           /\ h.r => \E l \in shown :
                                       /\ <<l.file, l.line>> = <<row.file, row.line>>
                                       /\ l.text \in Literal
    BY DEF HitsTrue
  <2>1. answer \in Pages(Materialized) /\ {m.file : m \in Merged} \subseteq DOMAIN live /\ Querying
    BY DEF SInv, Staged, Querying
  <2>2. IsFiniteSet(Materialized)
    BY FiniteHits DEF SInv
  <2>3. h \in Materialized
    BY <2>1, <2>2, PageIs
  <2>4. PICK m \in Merged : Kept(m) /\ h = Hit(m)
    BY <2>3 DEF Materialized
  <2>5. /\ h.file = m.file /\ h.index = m.index /\ h.snippet = Snippet(m)
        /\ h.f = m.f /\ h.r = m.r /\ h.v = m.v
    BY <2>4 DEF Hit
  <2>6. PICK r \in Listed : /\ r \in refs /\ m.file = r.file /\ m.index = r.index
                            /\ m.f <=> r \in lexical
                            /\ m.r <=> r \in LiteralRows
                            /\ m.v <=> r \in vector
    BY <2>1, MergedRow
  <2>7. \E l \in shown : l.file = h.file /\ l.text = h.snippet
    BY <2>1, <2>4, <2>5, SnippetIsWitnessed
  <2>8. (r \in lexical => r.text \in Lexical) /\ (r \in vector => r.text \in Similar)
    BY <2>1 DEF SInv, Current
  <2>9. r \in LiteralRows => \E l \in shown : /\ <<l.file, l.line>> = <<r.file, r.line>>
                                              /\ l.text \in Literal
    BY <2>1, LiteralIsWitnessed
  <2> QED BY <2>5, <2>6, <2>7, <2>8, <2>9
<1> QED BY <1>1, SessionsHold, PTL

-----------------------------------------------------------------------------
(* What an undisturbed search answers                                        *)

HitOf(r) == Hit(MergedHit(r.id))

\* The channels have found all that match, and every hit of theirs is kept.
LEMMA QuietHits ==
  ASSUME SInv, pc = "answered", quiet, Few
  PROVE  /\ Materialized = {HitOf(r) : r \in Matching}
         /\ \A r \in Matching : Labels(HitOf(r)) = TruthOf(r)
<1>1. /\ Querying /\ ~overtaken /\ \A p \in scope : Fresh(p)
      /\ {m.file : m \in Merged} \subseteq DOMAIN live
      /\ \A p \in DOMAIN live : live[p] = disk[p]
  BY DEF SInv, Calm, Querying, Staged
<1>2. /\ lexical = Of(Lexical) /\ LiteralRows = Of(Literal)
      /\ vector = IF hybrid THEN Of(Similar) ELSE {}
  BY DEF SInv, Calm, Staged
<1>3. Listed = Matching
  BY <1>2 DEF Listed, Matching, Of
<1>4. ASSUME NEW m \in Merged
      PROVE  \E r \in Matching : /\ m = MergedHit(r.id) /\ Kept(m)
                                 /\ m.file = r.file /\ m.index = r.index
                                 /\ m.f <=> r.text \in Lexical
                                 /\ m.r <=> r.text \in Literal
                                 /\ m.v <=> (hybrid /\ r.text \in Similar)
  <2>1. PICK r \in Listed : /\ r \in refs /\ m = MergedHit(r.id)
                            /\ m.file = r.file /\ m.index = r.index
                            /\ m.f <=> r \in lexical
                            /\ m.r <=> r \in LiteralRows
                            /\ m.v <=> r \in vector
    BY <1>1, MergedRow
  <2>2. r \in Matching /\ r.file \in scope
    BY <1>3, <2>1 DEF Matching
  <2>3. /\ m.f <=> r.text \in Lexical
        /\ m.r <=> r.text \in Literal
        /\ m.v <=> (hybrid /\ r.text \in Similar)
    BY <1>2, <2>1, <2>2 DEF Of
  <2>4. Kept(m)
    <3>1. live[m.file] = disk[r.file]
      BY <1>1, <2>1
    <3>2. /\ disk[r.file] # Absent /\ disk[r.file] \in Bodies
          /\ r.line \in ChunkLines(disk[r.file])
          /\ r.index = IndexOf(disk[r.file], r.line)
      BY <1>1, <2>1, <2>2, FreshRow DEF SInv
    <3>3. /\ r.index \in 0..(Cardinality(ChunkLines(disk[r.file])) - 1)
          /\ Cardinality(ChunkLines(disk[r.file])) \in Nat
      BY <3>2, IndexIs, LinesOfABody
    <3>4. r.index < Cardinality(ChunkLines(disk[r.file]))
      BY <3>3
    <3> QED BY <2>1, <3>1, <3>2, <3>4 DEF Kept, StillThere
  <2> QED BY <2>1, <2>2, <2>3, <2>4
<1>5. ASSUME NEW r \in Matching
      PROVE  MergedHit(r.id) \in Merged
  BY <1>3, MergedIs DEF Ids
<1>6. ASSUME NEW r \in Matching
      PROVE  Kept(MergedHit(r.id)) /\ Labels(HitOf(r)) = TruthOf(r)
  <2> DEFINE m == MergedHit(r.id)
  <2>1. m \in Merged
    BY <1>5
  <2>2. PICK s \in Listed : m = MergedHit(s.id) /\ FirstRow(s.id) = s /\ m.file = s.file
                            /\ m.index = s.index
    BY <1>1, <2>1, MergedRow
  <2>3. FirstRow(r.id) = r
    <3>1. r.id \in Ids(Listed) /\ r \in Listed
      BY <1>3 DEF Ids
    <3>2. FirstRow(r.id) \in Listed /\ FirstRow(r.id).id = r.id
      BY <3>1, FirstRowIs
    <3> QED BY <1>1, <3>1, <3>2, OneRow
  <2>4. m.file = r.file /\ m.index = r.index
    BY <2>3 DEF MergedHit
  <2>5. PICK t \in Matching : /\ m.file = t.file /\ m.index = t.index /\ Kept(m)
                              /\ m.f <=> t.text \in Lexical
                              /\ m.r <=> t.text \in Literal
                              /\ m.v <=> (hybrid /\ t.text \in Similar)
    BY <1>4, <2>1
  <2>6. t = r
    <3>1. t \in refs /\ r \in refs /\ t.file = r.file /\ t.index = r.index
      BY <2>4, <2>5 DEF Matching
    <3> QED BY <3>1 DEF SInv, Types, Sound, Keyed
  <2>7. LabelsOK(m)
    BY <2>1, MergedType DEF SInv
  <2> HIDE DEF m
  <2>8. /\ m.f = (r.text \in Lexical) /\ m.r = (r.text \in Literal)
        /\ m.v = (hybrid /\ r.text \in Similar)
    <3>1. m.f \in BOOLEAN /\ m.r \in BOOLEAN /\ m.v \in BOOLEAN
      BY <2>7 DEF LabelsOK
    <3>2. m.f = (r.text \in Lexical)
      BY <2>5, <2>6, <3>1
    <3>3. m.r = (r.text \in Literal)
      BY <2>5, <2>6, <3>1
    <3>4. m.v = (hybrid /\ r.text \in Similar)
      BY <2>5, <2>6, <3>1
    <3> QED BY <3>2, <3>3, <3>4, Zenon
  <2>9. Labels(Hit(m)) = [file |-> m.file, index |-> m.index, f |-> m.f, r |-> m.r, v |-> m.v]
    BY DEF Labels, Hit
  <2>10. Labels(Hit(m)) = TruthOf(r)
    BY <2>4, <2>8, <2>9, Zenon DEF TruthOf
  <2> QED BY <2>5, <2>10 DEF HitOf, m
<1>7. ASSUME NEW h \in Materialized
      PROVE  \E r \in Matching : h = HitOf(r)
  BY <1>4 DEF Materialized, HitOf
<1>8. ASSUME NEW r \in Matching
      PROVE  HitOf(r) \in Materialized
  BY <1>5, <1>6 DEF Materialized, HitOf
<1> QED BY <1>6, <1>7, <1>8

\* Undisturbed, and when no more chunks match than a channel may find, a search
\* shows only true hits, all labels on, and what it leaves out is semantic and
\* beyond the tail, or no better than all of a full page.
THEOREM QuietSearchesAreComplete == Spec => []QuietAnswer
<1>1. SInv => QuietAnswer
  <2> SUFFICES ASSUME SInv, pc = "answered", quiet, Few
               PROVE  LET got == {Labels(h) : h \in answer}
                      IN  /\ got \subseteq Truth
                          /\ \A t \in Truth \ got :
                               \/ /\ Cardinality(answer) = Limit
                                  /\ \A g \in got : Priority(g) >= Priority(t)
                               \/ /\ ~IsText(t) /\ \E x \in Truth : IsText(x)
                                  /\ Cardinality({g \in got : ~IsText(g)}) = SemanticLimit
    BY DEF QuietAnswer, Few
  <2> DEFINE got == {Labels(h) : h \in answer}
             text == {h \in Materialized : IsText(h)}
  <2>1. /\ Materialized = {HitOf(r) : r \in Matching}
        /\ \A r \in Matching : Labels(HitOf(r)) = TruthOf(r)
    BY QuietHits
  <2>2. /\ Truth = {TruthOf(r) : r \in Matching}
        /\ \A r, s \in Matching : TruthOf(r) = TruthOf(s) => r = s
    BY TruthIs DEF SInv, Calm
  <2>3. IsFiniteSet(Materialized) /\ \A h \in Materialized : LabelsOK(h)
    BY FiniteHits DEF SInv
  <2>4. answer \in Pages(Materialized)
    BY DEF SInv, Staged
  <2>5. PICK tail \in SUBSET (Materialized \ text) :
          /\ IsFiniteSet(tail)
          /\ text = {} => tail = Materialized
          /\ text # {} => (tail # Materialized \ text => Cardinality(tail) = SemanticLimit)
          /\ answer \subseteq text \cup tail
          /\ answer # text \cup tail => Cardinality(answer) = Limit
          /\ \A on \in answer, off \in (text \cup tail) \ answer : Priority(on) >= Priority(off)
    BY <2>3, <2>4, PageIs
  <2>6. \A h : /\ IsText(Labels(h)) <=> IsText(h)
               /\ Priority(Labels(h)) = Priority(h)
    BY DEF Labels, IsText, Priority, Sources
  <2>7. \A h \in Materialized : Labels(h) \in Truth
    BY <2>1, <2>2
  <2>8. \A t \in Truth : \E h \in Materialized : t = Labels(h)
    BY <2>1, <2>2
  <2>9. \A h, k \in Materialized : Labels(h) = Labels(k) => h = k
    BY <2>1, <2>2
  <2>10. answer \subseteq Materialized
    BY <2>5
  <2>11. got \subseteq Truth
    BY <2>7, <2>10
  <2>12. ASSUME NEW t \in Truth \ got
         PROVE  \/ /\ Cardinality(answer) = Limit
                   /\ \A g \in got : Priority(g) >= Priority(t)
                \/ /\ ~IsText(t) /\ \E x \in Truth : IsText(x)
                   /\ Cardinality({g \in got : ~IsText(g)}) = SemanticLimit
    <3>1. PICK h \in Materialized : t = Labels(h)
      BY <2>8
    <3>2. h \notin answer
      BY <2>12, <3>1
    <3>3. CASE h \in text \cup tail
      <4>1. \A on \in answer : Priority(on) >= Priority(h)
        BY <2>5, <3>2, <3>3
      <4>2. Cardinality(answer) = Limit
        BY <2>5, <3>2, <3>3
      <4>3. \A g \in got : Priority(g) >= Priority(t)
        BY <2>6, <3>1, <4>1
      <4> QED BY <4>2, <4>3
    <3>4. CASE h \notin text \cup tail
      <4>1. text # {} /\ ~IsText(h) /\ Cardinality(tail) = SemanticLimit
        BY <2>5, <3>4
      <4>2. ~IsText(t) /\ Priority(t) = 101
        BY <2>3, <2>6, <3>1, <4>1, PriorityIs
      <4>3. \E x \in Truth : IsText(x)
        BY <2>6, <2>7, <4>1
      <4>4. CASE answer # text \cup tail
        <5>1. ASSUME NEW g \in got
              PROVE  Priority(g) >= Priority(t)
          <6>1. PICK on \in answer : g = Labels(on)
            OBVIOUS
          <6>2. /\ Priority(on) \in Nat
                /\ ~IsText(on) => Priority(on) = 101
                /\ IsText(on) => Priority(on) >= 110
            BY <2>3, <2>10, PriorityIs
          <6>3. Priority(g) = Priority(on)
            BY <2>6, <6>1
          <6> QED BY <4>2, <6>2, <6>3
        <5> QED BY <2>5, <4>4, <5>1
      <4>5. CASE answer = text \cup tail
        <5> DEFINE f == [k \in tail |-> Labels(k)]
        <5>1. DOMAIN f = tail /\ \A k \in tail : f[k] = Labels(k)
          OBVIOUS
        <5>2. \A j, k \in tail : f[j] = f[k] => j = k
          BY <2>5, <2>9, <5>1
        <5> HIDE DEF f
        <5>3. Cardinality({f[k] : k \in tail}) = Cardinality(tail)
          BY <2>5, <5>1, <5>2, CountOfImage
        <5>4. {g \in got : ~IsText(g)} = {f[k] : k \in tail}
          <6>1. \A k \in answer : ~IsText(k) <=> k \in tail
            BY <2>5, <4>5
          <6>2. \A g \in got : ~IsText(g) => \E k \in tail : g = f[k]
            BY <2>6, <5>1, <6>1
          <6>3. \A k \in tail : f[k] \in got /\ ~IsText(f[k])
            BY <2>6, <4>5, <5>1, <6>1
          <6> QED BY <6>2, <6>3
        <5> QED BY <4>1, <4>2, <4>3, <5>3, <5>4
      <4> QED BY <4>4, <4>5
    <3> QED BY <3>3, <3>4
  <2> QED BY <2>11, <2>12
<1> QED BY <1>1, SessionsHold, PTL
=============================================================================
